---------------------------- MODULE Spec2Model ----------------------------
(***************************************************************************)
(* A model of merco-llmproxy: the process-wide tool registry               *)
(* (src/src/tools.rs), the OpenAI-compatible adapter                       *)
(* (src/src/providers/openai.rs) and the Ollama adapter                    *)
(* (src/src/providers/ollama.rs).                                          *)
(*                                                                         *)
(* The module holds several specifications over one set of variables; each *)
(* specification moves only the variables of its own component:            *)
(*   SpecRegistry          threads calling the global registry functions   *)
(*   SpecStreamToolCalls   one OpenAI stream fed tool-call fragment frames *)
(*   SpecStreamChunks      one OpenAI stream fed text, tool-call and       *)
(*                         metadata frames                                 *)
(*   SpecOpenAICompletion  OpenAIProvider::completion on one response      *)
(*   SpecOllamaCompletion  OllamaProvider::completion on one response      *)
(*   SpecAdapters          one call of completion or completion_stream on  *)
(*                         either adapter, and the stream it returns       *)
(*   SpecStreamClear       one OpenAI stream fed text frames and tool-call *)
(*                         fragment frames                                 *)
(*   SpecReentrant         threads calling the global registry functions,  *)
(*                         with executors that call them too               *)
(*   SpecMacro             one expansion of the merco_tool attribute macro *)
(*   SpecStreamOverwrite   one OpenAI stream fed fragment frames whose id  *)
(*                         and name are absent, empty or new               *)
(*   SpecStreamSnapshots   one OpenAI stream fed text frames and fragment  *)
(*                         frames of two tool calls                        *)
(*   SpecEncode            one call of completion on either adapter, up to *)
(*                         the request it sends                            *)
(*   SpecTwoStreams        two streams open at once, on either adapter     *)
(***************************************************************************)
EXTENDS Integers, Sequences, FiniteSets, TLC

(***************************************************************************)
(* Bounds of the model.                                                    *)
(***************************************************************************)
NumThreads == 2
MaxNames == 2
MaxFrames == 4
MaxLinesPerRead == 2
MaxParams == 2
MaxMessages == 2

(***************************************************************************)
(* Part 1: the tool registry, src/src/tools.rs                             *)
(***************************************************************************)
VARIABLES
    tools,          \* ToolRegistry.tools of GLOBAL_REGISTRY: name -> entry
    poisoned,       \* the poison flag of the Mutex around GLOBAL_REGISTRY
    holder,         \* the thread that owns the Mutex, 0 when it is free
    pc,             \* per thread: where it is inside a registry function
    call,           \* per thread: the call it is executing
    lastCall,       \* the most recently returned call and what it returned
    lastRegistered, \* history: per name, the arguments of the last
                    \* ToolRegistry::register call for that name
    \* one OpenAI completion stream (openai.rs completion_stream)
    tool_call_aggregator, \* HashMap<usize, ToolCallStreamDelta> of the stream
    history,        \* history: the network reads delivered so far, each a
                    \* sequence of lines
    emitted,        \* history: the items the stream has yielded so far
    \* one OpenAI non-streaming call (openai.rs completion)
    oaCall,         \* the configuration, request and HTTP response of the call
    oaResult,       \* what completion returned
    \* one Ollama non-streaming call (ollama.rs completion)
    olCall,         \* the configuration, request and HTTP response of the call
    olResult,       \* what completion returned
    \* one completion_stream call on either adapter
    stCall,         \* the adapter, configuration, request and HTTP response
    stResult,       \* what completion_stream returned
    requests,       \* history: how many HTTP requests the adapters have sent
    \* one expansion of #[merco_tool] (macros/src/lib.rs)
    macroCall,      \* the annotated function and the token printer in use
    macroResult,    \* the Tool that __get_tool_definition returns
    \* the request one completion call puts on the wire
    encCall,        \* the adapter, configuration and CompletionRequest
    encResult,      \* the body of the HTTP request it sends, if it sends one
    \* two completion streams open at the same time
    aggregators,    \* the heap: the tool-call aggregators allocated so far
    streams         \* per stream: its adapter, the aggregator its closure
                    \* captured, the reads delivered to it and what it yielded

regVars == <<tools, poisoned, holder, pc, call, lastCall, lastRegistered>>
streamVars == <<tool_call_aggregator, history, emitted>>
oaVars == <<oaCall, oaResult>>
olVars == <<olCall, olResult>>
openVars == <<stCall, stResult, requests>>
macroVars == <<macroCall, macroResult>>
encVars == <<encCall, encResult>>
pairVars == <<aggregators, streams>>
vars == <<regVars, streamVars, oaVars, olVars, openVars, macroVars, encVars, pairVars>>

Threads == 1..NumThreads

ToolNames == {"add", "mul"}
Descriptions == {"v1", "v2"}
\* Tool descriptors (traits.rs Tool); the parameters schema plays no part in
\* the registry and is left out.
Tool == [name : ToolNames, description : Descriptions]

\* Executor closures a caller may register, named by what their body does.
ExecutorIds == {"echo", "fail", "boom"}
ArgStrings == {"{}", "{\"a\":5}"}

NoTool == [name |-> "", description |-> ""]
NoEntry == [present |-> FALSE, tool |-> NoTool, executor |-> ""]

Ok(s) == [kind |-> "Ok", val |-> s, list |-> <<>>]
Err(s) == [kind |-> "Err", val |-> s, list |-> <<>>]
ToolList(l) == [kind |-> "Tools", val |-> "", list |-> l]
Unit == [kind |-> "Unit", val |-> "", list |-> <<>>]
Panic == [kind |-> "Panic", val |-> "", list |-> <<>>]

\* The body of a registered closure: Fn(&str) -> Result<String, String>.
\* "echo" returns its argument, "fail" returns an error that quotes it (the
\* shape of the test's parse failure), "boom" panics.
ExecutorBody(e, args) ==
    CASE e = "echo" -> Ok(args)
      [] e = "fail" -> Err("Failed to parse arguments: " \o args)
      [] OTHER -> Panic

\* Mutant of ToolRegistry_register: the insert evicts the entries of all
\* other names (a registry that holds one tool at a time).
ToolRegistry_register_evict(reg, tool, executor) ==
    [n \in DOMAIN reg |->
        IF n = tool.name
        THEN [present |-> TRUE, tool |-> tool, executor |-> executor]
        ELSE NoEntry]

\* Mutant of ToolRegistry_register: an insert that keeps an existing entry
\* (entry().or_insert) instead of replacing it.
ToolRegistry_register_keep_first(reg, tool, executor) ==
    IF reg[tool.name].present THEN reg
    ELSE [reg EXCEPT ![tool.name] =
             [present |-> TRUE, tool |-> tool, executor |-> executor]]

\* HashMap::insert keyed by tool.name: inserts or replaces.
ToolRegistry_register(reg, tool, executor) ==
    [reg EXCEPT ![tool.name] =
        [present |-> TRUE, tool |-> tool, executor |-> executor]]

RegisteredNames(reg) == {n \in DOMAIN reg : reg[n].present}

\* All orderings of a finite set as sequences (HashMap iteration order is
\* unspecified).
Orderings(S) ==
    {s \in [1..Cardinality(S) -> S] : \A i, j \in 1..Cardinality(S) :
        i # j => s[i] # s[j]}

\* self.tools.values().map(|(tool, _)| tool.clone()).collect(): the
\* descriptors in one of the map's iteration orders.
ToolRegistry_get_tools(reg) ==
    {[i \in DOMAIN o |-> reg[o[i]].tool] : o \in Orderings(RegisteredNames(reg))}

\* Mutant of NotFound: an unknown tool answered with an empty success.
NotFound_as_ok(name) == Ok("")

\* self.tools.get(name): None yields the not-found error, Some yields the
\* executor to call with args.
NotFound(name) == Err("Tool '" \o name \o "' not found in registry")

ToolRegistry_lookup(reg, name) ==
    IF name \in DOMAIN reg /\ reg[name].present THEN reg[name] ELSE NoEntry

\* The argument string handed to the closure: executor(args).
PassedArgs(args) == args

\* Mutant of FilterMapNames: every registered descriptor, whatever was asked.
FilterMapNames_all(reg, names) ==
    CHOOSE l \in ToolRegistry_get_tools(reg) : TRUE

\* names.iter().filter_map(|name| registry.tools.get(*name).map(...)).collect()
RECURSIVE FilterMapNames(_, _)
FilterMapNames(reg, names) ==
    IF names = <<>> THEN <<>>
    ELSE LET e == ToolRegistry_lookup(reg, Head(names))
             rest == FilterMapNames(reg, Tail(names))
         IN IF e.present THEN <<e.tool>> \o rest ELSE rest

LockError == Err("Failed to lock registry: poisoned lock: another task failed inside")


\* Mutant of MutexFree: a lock that never makes a caller wait.
MutexFree_always == TRUE

\* Mutex::lock blocks until no thread owns the mutex.
MutexFree == holder = 0

NoCall == [op |-> "none", name |-> "", args |-> "", names |-> <<>>,
           tool |-> NoTool, executor |-> "", invoked |-> <<>>,
           before |-> <<>>]
NoReturn == [op |-> "none", name |-> "", args |-> "", names |-> <<>>,
             tool |-> NoTool, executor |-> "", invoked |-> <<>>,
             acquired |-> FALSE, changed |-> FALSE, prior |-> NoEntry,
             registered |-> [n \in ToolNames |-> NoTool], result |-> Unit]

\* The record of a call that has returned: its inputs, whether lock() gave
\* Ok, whether the registry differs from what it was when the lock was taken,
\* the result, and from the history of register calls as it stood before the
\* call returned: the last registration of the call's name (prior) and, for
\* the two listing functions, the last registered descriptor of every name.
Returned(c, acquired, reg, res) ==
    [op |-> c.op, name |-> c.name, args |-> c.args, names |-> c.names,
     tool |-> c.tool, executor |-> c.executor, invoked |-> c.invoked,
     acquired |-> acquired, changed |-> (reg # c.before),
     prior |-> IF c.name \in DOMAIN lastRegistered
               THEN lastRegistered[c.name] ELSE NoEntry,
     registered |-> IF c.op \in {"get_all", "get_by_names"}
                    THEN [n \in ToolNames |-> lastRegistered[n].tool]
                    ELSE [n \in ToolNames |-> NoTool],
     result |-> res]

RegInit ==
    /\ tools = [n \in ToolNames |-> NoEntry]
    /\ poisoned = FALSE
    /\ holder = 0
    /\ pc = [t \in Threads |-> "idle"]
    /\ call = [t \in Threads |-> NoCall]
    /\ lastCall = NoReturn
    /\ lastRegistered = [n \in ToolNames |-> NoEntry]

\* Mutant of Lock: a lock whose poison flag is cleared by the next caller,
\* who gets the guard as if nothing had happened.
Lock_recovering(t, c) ==
    /\ pc[t] = "idle"
    /\ MutexFree
    /\ holder' = t
    /\ pc' = [pc EXCEPT ![t] = "locked"]
    /\ call' = [call EXCEPT ![t] = [c EXCEPT !.before = tools]]
    /\ UNCHANGED <<tools, poisoned, lastCall, lastRegistered>>
    /\ UNCHANGED <<streamVars, oaVars, olVars, openVars, macroVars, encVars, pairVars>>

\* GLOBAL_REGISTRY.lock(): the thread takes the mutex; the result is Err
\* (PoisonError) when an earlier owner panicked.
Lock(t, c) ==
    /\ pc[t] = "idle"
    /\ MutexFree
    /\ holder' = t
    /\ pc' = [pc EXCEPT ![t] = IF poisoned THEN "failed" ELSE "locked"]
    /\ call' = [call EXCEPT ![t] = [c EXCEPT !.before = tools]]
    /\ UNCHANGED <<tools, poisoned, lastCall, lastRegistered>>
    /\ UNCHANGED <<streamVars, oaVars, olVars, openVars, macroVars, encVars, pairVars>>

\* The guard is dropped and the function returns res.
Return(t, acquired, reg, res) ==
    /\ holder' = 0
    /\ pc' = [pc EXCEPT ![t] = "idle"]
    /\ call' = [call EXCEPT ![t] = NoCall]
    /\ lastCall' = Returned(call[t], acquired, reg, res)

\* register_tool(tool, executor)
register_tool_lock(t) ==
    \E tool \in Tool, e \in ExecutorIds :
        Lock(t, [NoCall EXCEPT !.op = "register", !.name = tool.name,
                               !.tool = tool, !.executor = e])

register_tool_ok(t) ==
    /\ pc[t] = "locked" /\ call[t].op = "register"
    /\ tools' = ToolRegistry_register(tools, call[t].tool, call[t].executor)
    /\ lastRegistered' = [lastRegistered EXCEPT ![call[t].tool.name] =
           [present |-> TRUE, tool |-> call[t].tool,
            executor |-> call[t].executor]]
    /\ Return(t, TRUE, tools', Unit)
    /\ UNCHANGED <<poisoned>>
    /\ UNCHANGED <<streamVars, oaVars, olVars, openVars, macroVars, encVars, pairVars>>

\* The else branch: eprintln and nothing else.
register_tool_poisoned(t) ==
    /\ pc[t] = "failed" /\ call[t].op = "register"
    /\ Return(t, FALSE, tools, Unit)
    /\ UNCHANGED <<tools, poisoned, lastRegistered>>
    /\ UNCHANGED <<streamVars, oaVars, olVars, openVars, macroVars, encVars, pairVars>>

\* get_all_tools()
get_all_tools_lock(t) == Lock(t, [NoCall EXCEPT !.op = "get_all"])

get_all_tools_ok(t) ==
    /\ pc[t] = "locked" /\ call[t].op = "get_all"
    /\ \E l \in ToolRegistry_get_tools(tools) :
           Return(t, TRUE, tools, ToolList(l))
    /\ UNCHANGED <<tools, poisoned, lastRegistered>>
    /\ UNCHANGED <<streamVars, oaVars, olVars, openVars, macroVars, encVars, pairVars>>

\* Mutant of get_all_tools_poisoned: lock().unwrap(), which panics on a
\* poisoned mutex.
get_all_tools_unwrap(t) ==
    /\ pc[t] = "failed" /\ call[t].op = "get_all"
    /\ holder' = 0
    /\ pc' = [pc EXCEPT ![t] = "dead"]
    /\ lastCall' = Returned(call[t], FALSE, tools, Panic)
    /\ call' = [call EXCEPT ![t] = NoCall]
    /\ UNCHANGED <<tools, poisoned, lastRegistered>>
    /\ UNCHANGED <<streamVars, oaVars, olVars, openVars, macroVars, encVars, pairVars>>

\* unwrap_or_default(): the empty Vec.
get_all_tools_poisoned(t) ==
    /\ pc[t] = "failed" /\ call[t].op = "get_all"
    /\ Return(t, FALSE, tools, ToolList(<<>>))
    /\ UNCHANGED <<tools, poisoned, lastRegistered>>
    /\ UNCHANGED <<streamVars, oaVars, olVars, openVars, macroVars, encVars, pairVars>>

\* get_tools_by_names(names)
RequestNames == ToolNames \cup {"missing"}
NameLists == UNION {[1..k -> RequestNames] : k \in 0..MaxNames}

get_tools_by_names_lock(t) ==
    \E names \in NameLists :
        Lock(t, [NoCall EXCEPT !.op = "get_by_names", !.names = names])

get_tools_by_names_ok(t) ==
    /\ pc[t] = "locked" /\ call[t].op = "get_by_names"
    /\ Return(t, TRUE, tools, ToolList(FilterMapNames(tools, call[t].names)))
    /\ UNCHANGED <<tools, poisoned, lastRegistered>>
    /\ UNCHANGED <<streamVars, oaVars, olVars, openVars, macroVars, encVars, pairVars>>

get_tools_by_names_poisoned(t) ==
    /\ pc[t] = "failed" /\ call[t].op = "get_by_names"
    /\ Return(t, FALSE, tools, ToolList(<<>>))
    /\ UNCHANGED <<tools, poisoned, lastRegistered>>
    /\ UNCHANGED <<streamVars, oaVars, olVars, openVars, macroVars, encVars, pairVars>>

\* execute_tool(name, args)
execute_tool_lock(t) ==
    \E name \in RequestNames, args \in ArgStrings :
        Lock(t, [NoCall EXCEPT !.op = "execute", !.name = name, !.args = args])

\* ToolRegistry::execute_tool, the None arm: the not-found error.
execute_tool_not_found(t) ==
    /\ pc[t] = "locked" /\ call[t].op = "execute"
    /\ ~ToolRegistry_lookup(tools, call[t].name).present
    /\ Return(t, TRUE, tools, NotFound(call[t].name))
    /\ UNCHANGED <<tools, poisoned, lastRegistered>>
    /\ UNCHANGED <<streamVars, oaVars, olVars, openVars, macroVars, encVars, pairVars>>

\* Mutant of execute_tool_invoke: the executor is cloned out of the map and
\* the guard is dropped before the closure is entered.
execute_tool_invoke_unlocked(t) ==
    /\ pc[t] = "locked" /\ call[t].op = "execute"
    /\ LET e == ToolRegistry_lookup(tools, call[t].name)
       IN /\ e.present
          /\ call' = [call EXCEPT ![t].invoked =
                 Append(@, [executor |-> e.executor,
                            args |-> PassedArgs(call[t].args)])]
    /\ pc' = [pc EXCEPT ![t] = "running"]
    /\ holder' = 0
    /\ UNCHANGED <<tools, poisoned, lastCall, lastRegistered>>
    /\ UNCHANGED <<streamVars, oaVars, olVars, openVars, macroVars, encVars, pairVars>>

\* ToolRegistry::execute_tool, the Some arm: the closure is entered with the
\* guard still alive.
execute_tool_invoke(t) ==
    /\ pc[t] = "locked" /\ call[t].op = "execute"
    /\ LET e == ToolRegistry_lookup(tools, call[t].name)
       IN /\ e.present
          /\ call' = [call EXCEPT ![t].invoked =
                 Append(@, [executor |-> e.executor,
                            args |-> PassedArgs(call[t].args)])]
    /\ pc' = [pc EXCEPT ![t] = "running"]
    /\ UNCHANGED <<tools, poisoned, holder, lastCall, lastRegistered>>
    /\ UNCHANGED <<streamVars, oaVars, olVars, openVars, macroVars, encVars, pairVars>>

\* Mutant of ExecuteResult: the closure's error wrapped in a registry error.
ExecuteResult_wrapped(r) ==
    IF r.kind = "Err" THEN Err("Tool execution failed: " \o r.val) ELSE r

\* What execute_tool makes of the closure's return value.
ExecuteResult(r) == r

\* The closure returns Ok or Err: execute_tool returns it.
execute_tool_return(t) ==
    /\ pc[t] = "running"
    /\ LET inv == call[t].invoked[Len(call[t].invoked)]
           r == ExecutorBody(inv.executor, inv.args)
       IN /\ r.kind # "Panic"
          /\ Return(t, TRUE, tools, ExecuteResult(r))
    /\ UNCHANGED <<tools, poisoned, lastRegistered>>
    /\ UNCHANGED <<streamVars, oaVars, olVars, openVars, macroVars, encVars, pairVars>>

\* The closure panics: the unwinding drops the guard, which poisons the
\* mutex, and the calling thread ends.
execute_tool_panic(t) ==
    /\ pc[t] = "running"
    /\ LET inv == call[t].invoked[Len(call[t].invoked)]
       IN ExecutorBody(inv.executor, inv.args).kind = "Panic"
    /\ poisoned' = TRUE
    /\ holder' = 0
    /\ pc' = [pc EXCEPT ![t] = "dead"]
    /\ lastCall' = Returned(call[t], TRUE, tools, Panic)
    /\ call' = [call EXCEPT ![t] = NoCall]
    /\ UNCHANGED <<tools, lastRegistered>>
    /\ UNCHANGED <<streamVars, oaVars, olVars, openVars, macroVars, encVars, pairVars>>

\* map_err(|e| format!("Failed to lock registry: {}", e))?
execute_tool_poisoned(t) ==
    /\ pc[t] = "failed" /\ call[t].op = "execute"
    /\ Return(t, FALSE, tools, LockError)
    /\ UNCHANGED <<tools, poisoned, lastRegistered>>
    /\ UNCHANGED <<streamVars, oaVars, olVars, openVars, macroVars, encVars, pairVars>>

\* Executors whose body calls one of the global registry functions.
NestedExecutorIds ==
    {"calls_register", "calls_get_all", "calls_get_by_names", "calls_execute"}

\* register_tool(tool, executor) with an executor that returns its argument
\* or one that calls back into the registry.
register_nested_lock(t) ==
    \E name \in ToolNames, e \in NestedExecutorIds \cup {"echo"} :
        Lock(t, [NoCall EXCEPT !.op = "register", !.name = name,
                               !.tool = [name |-> name, description |-> "v1"],
                               !.executor = e])

\* The closure, running inside execute_tool with the guard alive, calls a
\* global registry function: GLOBAL_REGISTRY.lock() on a mutex the thread
\* already owns. std::sync::Mutex leaves this unspecified but never returns
\* from it: the thread blocks for ever with the mutex held, or lock() panics
\* and the unwinding poisons the mutex and ends the thread.
execute_tool_nested_lock(t) ==
    /\ pc[t] = "running"
    /\ call[t].invoked[Len(call[t].invoked)].executor \in NestedExecutorIds
    /\ \/ /\ pc' = [pc EXCEPT ![t] = "blocked"]
          /\ UNCHANGED <<poisoned, holder, lastCall, call>>
       \/ /\ poisoned' = TRUE
          /\ holder' = 0
          /\ pc' = [pc EXCEPT ![t] = "dead"]
          /\ lastCall' = Returned(call[t], TRUE, tools, Panic)
          /\ call' = [call EXCEPT ![t] = NoCall]
    /\ UNCHANGED <<tools, lastRegistered>>
    /\ UNCHANGED <<streamVars, oaVars, olVars, openVars, macroVars, encVars, pairVars>>

\* Threads that register echoing and nested executors, list the tools and
\* execute them.
ReentrantNext ==
    \E t \in Threads :
        \/ register_nested_lock(t)
        \/ register_tool_ok(t)
        \/ register_tool_poisoned(t)
        \/ get_all_tools_lock(t)
        \/ get_all_tools_ok(t)
        \/ get_all_tools_poisoned(t)
        \/ execute_tool_lock(t)
        \/ execute_tool_not_found(t)
        \/ execute_tool_invoke(t)
        \/ execute_tool_return(t)
        \/ execute_tool_nested_lock(t)
        \/ execute_tool_poisoned(t)

RegNext ==
    \E t \in Threads :
        \/ register_tool_lock(t)
        \/ register_tool_ok(t)
        \/ register_tool_poisoned(t)
        \/ get_all_tools_lock(t)
        \/ get_all_tools_ok(t)
        \/ get_all_tools_poisoned(t)
        \/ get_tools_by_names_lock(t)
        \/ get_tools_by_names_ok(t)
        \/ get_tools_by_names_poisoned(t)
        \/ execute_tool_lock(t)
        \/ execute_tool_not_found(t)
        \/ execute_tool_invoke(t)
        \/ execute_tool_return(t)
        \/ execute_tool_panic(t)
        \/ execute_tool_poisoned(t)

(***************************************************************************)
(* Part 2: the OpenAI streaming path, src/src/providers/openai.rs          *)
(* completion_stream, the closure given to try_filter_map.                 *)
(***************************************************************************)
\* Option<T>: None is the empty sequence, Some(x) the sequence <<x>>.
None == <<>>
Some(x) == <<x>>
IsSome(o) == o # <<>>

\* OpenAIStreamToolCallDelta {index, id, function: {name, arguments}}
ToolDelta(index, id, function) ==
    [index |-> index, id |-> id, function |-> function]
FunctionDelta(name, arguments) == [name |-> name, arguments |-> arguments]

\* OpenAIChatStreamResponse {choices: [{delta: {content, tool_calls},
\* finish_reason}], usage}, with at most one choice.
Frame(content, tool_calls, finish_reason, usage) ==
    [choices |-> <<[delta |-> [content |-> content, tool_calls |-> tool_calls],
                    finish_reason |-> finish_reason]>>,
     usage |-> usage]
NoChoiceFrame(usage) == [choices |-> <<>>, usage |-> usage]

\* One line of a network read, by what the loop body makes of it:
\*   "other"      no "data: " prefix (blank lines, comments)
\*   "empty"      "data: " with nothing after it
\*   "done"       "data: [DONE]"
\*   "malformed"  "data: " followed by bytes that do not parse as a frame
\*   "frame"      "data: " followed by a frame
DataLine(frame) == [kind |-> "frame", frame |-> frame]
PlainLine(kind) == [kind |-> kind, frame |-> NoChoiceFrame(None)]

\* CompletionStreamChunk with delta Text(..) or ToolCallDelta(..).
TextChunk(text, usage, finish_reason) ==
    [delta |-> [kind |-> "Text", text |-> text, calls |-> <<>>],
     usage |-> usage, finish_reason |-> finish_reason]
ToolCallChunk(calls) ==
    [delta |-> [kind |-> "ToolCallDelta", text |-> "", calls |-> calls],
     usage |-> None, finish_reason |-> None]

\* HashMap::new() and clear().
EmptyAggregator == [i \in {} |-> ToolDelta(0, None, None)]

\* Self::map_usage: the backend's three counts, passed through.
map_usage(usage) ==
    IF IsSome(usage)
    THEN Some([prompt_tokens |-> usage[1].prompt_tokens,
               completion_tokens |-> usage[1].completion_tokens,
               total_tokens |-> usage[1].total_tokens])
    ELSE None

\* The body of `for tool_delta in tool_deltas`: the entry for the delta's
\* index after the delta is merged into it (lines 439-457).
MergeToolDelta(agg, d) ==
    LET entry0 == IF d.index \in DOMAIN agg THEN agg[d.index]
                  ELSE ToolDelta(d.index, None, None)
        entry1 == IF IsSome(d.id) THEN [entry0 EXCEPT !.id = d.id] ELSE entry0
    IN IF IsSome(d.function)
       THEN LET f0 == IF IsSome(entry1.function) THEN entry1.function[1]
                      ELSE FunctionDelta(None, None)
                f1 == IF IsSome(d.function[1].name)
                      THEN [f0 EXCEPT !.name = d.function[1].name] ELSE f0
                f2 == IF IsSome(d.function[1].arguments)
                      THEN [f1 EXCEPT !.arguments =
                               Some((IF IsSome(f1.arguments)
                                     THEN f1.arguments[1] ELSE "")
                                    \o d.function[1].arguments[1])]
                      ELSE f1
            IN [entry1 EXCEPT !.function = Some(f2)]
       ELSE entry1

\* agg with key k bound to entry e (HashMap entry().or_insert plus the
\* writes through the returned reference).
PutEntry(agg, k, e) ==
    [i \in DOMAIN agg \cup {k} |-> IF i = k THEN e ELSE agg[i]]

\* Mutant of MergeToolDeltas: the chunk carries the raw fragments instead
\* of clones of the accumulated entries.
RECURSIVE MergeToolDeltas_raw(_, _, _)
MergeToolDeltas_raw(agg, deltas, generic_deltas) ==
    IF deltas = <<>> THEN [agg |-> agg, generic_deltas |-> generic_deltas]
    ELSE LET e == MergeToolDelta(agg, Head(deltas))
         IN MergeToolDeltas_raw(PutEntry(agg, Head(deltas).index, e),
                                Tail(deltas),
                                Append(generic_deltas, Head(deltas)))

\* The whole `for tool_delta in tool_deltas` loop: the aggregator after it and
\* generic_deltas, the clones of the entries it touched, in order.
RECURSIVE MergeToolDeltas(_, _, _)
MergeToolDeltas(agg, deltas, generic_deltas) ==
    IF deltas = <<>> THEN [agg |-> agg, generic_deltas |-> generic_deltas]
    ELSE LET e == MergeToolDelta(agg, Head(deltas))
         IN MergeToolDeltas(PutEntry(agg, Head(deltas).index, e), Tail(deltas),
                            Append(generic_deltas, e))

\* The locals of one run of the closure, and the aggregator it shares with
\* the other runs of the same stream.
ClosureStart(agg) ==
    [agg |-> agg, result_chunk |-> None, final_usage |-> None,
     final_reason |-> None, error |-> FALSE]

\* Mutant of ProcessDelta: text does not clear the aggregator.
ProcessDelta_keep(st, delta) ==
    IF IsSome(delta.content)
    THEN IF delta.content[1] # ""
         THEN [st EXCEPT !.result_chunk =
                             Some(TextChunk(delta.content[1], None, None))]
         ELSE st
    ELSE IF IsSome(delta.tool_calls)
         THEN LET m == MergeToolDeltas(st.agg, delta.tool_calls[1], <<>>)
              IN [st EXCEPT !.agg = m.agg,
                            !.result_chunk =
                                IF m.generic_deltas # <<>>
                                THEN Some(ToolCallChunk(m.generic_deltas))
                                ELSE @]
         ELSE st

\* Lines 427-469: what the choice's delta does to result_chunk and to the
\* aggregator.
ProcessDelta(st, delta) ==
    IF IsSome(delta.content)
    THEN IF delta.content[1] # ""
         THEN [st EXCEPT !.result_chunk =
                             Some(TextChunk(delta.content[1], None, None)),
                         !.agg = EmptyAggregator]
         ELSE st
    ELSE IF IsSome(delta.tool_calls)
         THEN LET m == MergeToolDeltas(st.agg, delta.tool_calls[1], <<>>)
              IN [st EXCEPT !.agg = m.agg,
                            !.result_chunk =
                                IF m.generic_deltas # <<>>
                                THEN Some(ToolCallChunk(m.generic_deltas))
                                ELSE @]
         ELSE st

\* Lines 413-421, then the delta of the first choice.
ProcessFrame(st, frame) ==
    LET st1 == IF IsSome(frame.usage)
               THEN [st EXCEPT !.final_usage = frame.usage] ELSE st
    IN IF frame.choices = <<>> THEN st1
       ELSE LET choice == Head(frame.choices)
                st2 == IF IsSome(choice.finish_reason)
                       THEN [st1 EXCEPT !.final_reason = choice.finish_reason]
                       ELSE st1
            IN ProcessDelta(st2, choice.delta)

\* The body of `for line in lines` (lines 404-479).
ProcessLine(st, line) ==
    CASE line.kind = "frame" -> ProcessFrame(st, line.frame)
      [] line.kind = "malformed" -> [st EXCEPT !.error = TRUE]
      [] OTHER -> st

\* The loop over the lines of one read; a parse error returns at once.
RECURSIVE ProcessLines(_, _)
ProcessLines(st, lines) ==
    IF lines = <<>> \/ st.error THEN st
    ELSE ProcessLines(ProcessLine(st, Head(lines)), Tail(lines))

ParseErrorItem == [ok |-> FALSE, chunk |-> TextChunk("", None, None)]
ChunkItem(c) == [ok |-> TRUE, chunk |-> c]

\* What the closure returns for one read (lines 473-491): Err(ParseError),
\* Ok(None) or Ok(Some(chunk)), as the sequence of items the stream yields
\* for it.
ClosureItems(st) ==
    IF st.error THEN <<ParseErrorItem>>
    ELSE IF IsSome(st.result_chunk) THEN <<ChunkItem(st.result_chunk[1])>>
    ELSE IF IsSome(st.final_reason) \/ IsSome(st.final_usage)
         THEN <<ChunkItem(TextChunk("", map_usage(st.final_usage),
                                    st.final_reason))>>
    ELSE <<>>

StreamInit ==
    /\ tool_call_aggregator = EmptyAggregator
    /\ history = <<>>
    /\ emitted = <<>>

RECURSIVE LineCount(_)
LineCount(reads) ==
    IF reads = <<>> THEN 0 ELSE Len(Head(reads)) + LineCount(Tail(reads))

ReadsOver(Lines) == UNION {[1..k -> Lines] : k \in 1..MaxLinesPerRead}

\* The stream is polled and the connection delivers one read: the closure
\* runs on it (try_filter_map yields its Err or Some, and skips its None).
Poll(read) ==
    /\ LineCount(history) + Len(read) <= MaxFrames
    /\ LET st == ProcessLines(ClosureStart(tool_call_aggregator), read)
       IN /\ tool_call_aggregator' = st.agg
          /\ emitted' = emitted \o ClosureItems(st)
    /\ history' = Append(history, read)
    /\ UNCHANGED <<regVars, oaVars, olVars, openVars, macroVars, encVars, pairVars>>

\* The frames a backend sends for one tool call at index 0, id "call_1",
\* function "f", arguments {"a":1,"b":2} in three fragments, with the content
\* field absent or present and empty; and a fragment of a second call.
Fragment1 == ToolDelta(0, Some("call_1"), Some(FunctionDelta(Some("f"), Some("{\"a\":"))))
Fragment2 == ToolDelta(0, None, Some(FunctionDelta(None, Some("1,\"b\":"))))
Fragment3 == ToolDelta(0, None, Some(FunctionDelta(None, Some("2}"))))
OtherCall == ToolDelta(1, Some("call_2"), Some(FunctionDelta(Some("g"), Some("{}"))))

ToolCallLines ==
    {DataLine(Frame(None, Some(<<Fragment1>>), None, None)),
     DataLine(Frame(None, Some(<<Fragment2>>), None, None)),
     DataLine(Frame(None, Some(<<Fragment3>>), None, None)),
     DataLine(Frame(Some(""), Some(<<Fragment2>>), None, None)),
     DataLine(Frame(None, Some(<<OtherCall, Fragment3>>), None, None)),
     PlainLine("other")}

Usage1 == [prompt_tokens |-> 3, completion_tokens |-> 2, total_tokens |-> 5]
\* A usage object whose total is not the sum of its two counts.
Usage2 == [prompt_tokens |-> 3, completion_tokens |-> 2, total_tokens |-> 7]

\* Text frames, a tool-call frame, a metadata-only frame and the sentinel.
ChunkLines ==
    {DataLine(Frame(Some("Hel"), None, None, None)),
     DataLine(Frame(Some("lo"), None, None, None)),
     DataLine(Frame(Some(""), None, None, None)),
     DataLine(Frame(None, Some(<<Fragment1>>), None, None)),
     DataLine(Frame(None, None, Some("stop"), Some(Usage1))),
     PlainLine("other"),
     PlainLine("done")}

\* Text frames, frames with an empty content field, and fragment frames of
\* the tool call at index 0.
ClearLines ==
    {DataLine(Frame(Some("Hel"), None, None, None)),
     DataLine(Frame(Some(""), None, None, None)),
     DataLine(Frame(None, Some(<<Fragment1>>), None, None)),
     DataLine(Frame(None, Some(<<Fragment2>>), None, None))}

\* Fragments of the call at index 0 that carry an id and a name again: both
\* empty, or both new; and the frames that open and continue the call.
EmptyIdFragment == ToolDelta(0, Some(""), Some(FunctionDelta(Some(""), Some("1}"))))
NewIdFragment == ToolDelta(0, Some("call_9"), Some(FunctionDelta(Some("h"), None)))

OverwriteLines ==
    {DataLine(Frame(None, Some(<<Fragment1>>), None, None)),
     DataLine(Frame(None, Some(<<Fragment2>>), None, None)),
     DataLine(Frame(None, Some(<<EmptyIdFragment>>), None, None)),
     DataLine(Frame(None, Some(<<NewIdFragment>>), None, None))}

\* Fragment frames of two calls (one frame carrying fragments of both) and
\* a text frame: every line makes the closure produce a chunk.
SnapshotLines ==
    {DataLine(Frame(None, Some(<<Fragment1>>), None, None)),
     DataLine(Frame(None, Some(<<Fragment2>>), None, None)),
     DataLine(Frame(None, Some(<<OtherCall, Fragment3>>), None, None)),
     DataLine(Frame(Some("Hel"), None, None, None))}

StreamOverwriteNext == \E read \in ReadsOver(OverwriteLines) : Poll(read)
StreamSnapshotsNext == \E read \in ReadsOver(SnapshotLines) : Poll(read)
StreamToolCallsNext == \E read \in ReadsOver(ToolCallLines) : Poll(read)
StreamClearNext == \E read \in ReadsOver(ClearLines) : Poll(read)
StreamChunksNext == \E read \in ReadsOver(ChunkLines) : Poll(read)

(***************************************************************************)
(* Part 3: the OpenAI non-streaming path, src/src/providers/openai.rs      *)
(* completion.                                                             *)
(***************************************************************************)
\* CompletionKind::Message and CompletionKind::ToolCall.
Message(content) == [kind |-> "Message", content |-> content, tool_calls |-> <<>>]
ToolCall(calls) == [kind |-> "ToolCall", content |-> "", tool_calls |-> calls]

\* ToolCallRequest {id, type, function: {name, arguments}}
ToolCallRequest(id, name, arguments) ==
    [id |-> id, tool_type |-> "function",
     function |-> [name |-> name, arguments |-> arguments]]

\* Self::map_tool_calls: one ToolCallRequest per OpenAIToolCall, in order.
map_tool_calls(tool_calls) ==
    [i \in DOMAIN tool_calls |->
        ToolCallRequest(tool_calls[i].id, tool_calls[i].function.name,
                        tool_calls[i].function.arguments)]

\* Mutant of determine_completion_kind: content, when present, wins over
\* tool_calls.
determine_completion_kind_content_first(message, finish_reason) ==
    IF IsSome(message.content) THEN Message(message.content[1])
    ELSE IF IsSome(message.tool_calls)
         THEN ToolCall(map_tool_calls(message.tool_calls[1]))
    ELSE IF finish_reason = Some("tool_calls") THEN ToolCall(<<>>)
    ELSE Message("")

\* Self::determine_completion_kind: the match on (content, tool_calls).
determine_completion_kind(message, finish_reason) ==
    IF IsSome(message.tool_calls)
    THEN ToolCall(map_tool_calls(message.tool_calls[1]))
    ELSE IF IsSome(message.content) THEN Message(message.content[1])
    ELSE IF finish_reason = Some("tool_calls") THEN ToolCall(<<>>)
    ELSE Message("")

\* Results of completion: Ok(CompletionResponse) or a ProviderError.
NoResponse == [kind |-> Message(""), usage |-> None, finish_reason |-> None]
OkResponse(kind, usage, finish_reason) ==
    [result |-> "Ok", status |-> 0, message |-> "",
     response |-> [kind |-> kind, usage |-> usage,
                   finish_reason |-> finish_reason]]
ProviderError(error, status, message) ==
    [result |-> error, status |-> status, message |-> message,
     response |-> NoResponse]

\* StatusCode::is_success
is_success(status) == status >= 200 /\ status <= 299

\* The HTTP exchange as completion sees it: the status, for a non-success
\* status the error body (the message of its {"error": {"message": ..}}
\* envelope when it parses as one, and its raw text), for a success status
\* the decoded OpenAIChatResponse.
HttpError(status, envelope, raw) ==
    [status |-> status, envelope |-> envelope, raw |-> raw,
     body |-> [choices |-> <<>>, usage |-> None]]
HttpOk(body) == [status |-> 200, envelope |-> None, raw |-> "", body |-> body]

\* Mutant of openai_completion: the configured provider is not checked.
openai_completion_any_provider(provider, http) ==
    IF ~is_success(http.status)
    THEN ProviderError("ApiError", http.status,
                       IF IsSome(http.envelope) THEN http.envelope[1]
                       ELSE http.raw)
    ELSE IF http.body.choices = <<>>
    THEN ProviderError("ParseError", 0, "No choices found in OpenAI response")
    ELSE LET first_choice == Head(http.body.choices)
         IN OkResponse(determine_completion_kind(first_choice.message,
                                                 first_choice.finish_reason),
                       map_usage(http.body.usage),
                       first_choice.finish_reason)

\* OpenAIProvider::completion, from the configured provider and the HTTP
\* exchange to the returned value (lines 294-344).
openai_completion(provider, http) ==
    IF provider # "OpenAI"
    THEN ProviderError("ConfigError", 0,
                       "Invalid provider configured for OpenAIProvider")
    ELSE IF ~is_success(http.status)
    THEN ProviderError("ApiError", http.status,
                       IF IsSome(http.envelope) THEN http.envelope[1]
                       ELSE http.raw)
    ELSE IF http.body.choices = <<>>
    THEN ProviderError("ParseError", 0, "No choices found in OpenAI response")
    ELSE LET first_choice == Head(http.body.choices)
         IN OkResponse(determine_completion_kind(first_choice.message,
                                                 first_choice.finish_reason),
                       map_usage(http.body.usage),
                       first_choice.finish_reason)

\* How many HTTP requests completion sends: one, after the provider check
\* (the request is sent at line 314).
openai_completion_requests(provider) == IF provider # "OpenAI" THEN 0 ELSE 1

OaInit ==
    /\ oaCall = [provider |-> "OpenAI", http |-> HttpOk([choices |-> <<>>, usage |-> None])]
    /\ oaResult = ProviderError("none", 0, "")

\* The inputs of the model: OpenAIToolCall values, messages, choices, bodies.
OpenAIToolCall(id, name, arguments) ==
    [id |-> id, function |-> [name |-> name, arguments |-> arguments]]
Call1 == OpenAIToolCall("call_1", "add", "{\"a\":5,\"b\":3}")
Call2 == OpenAIToolCall("call_2", "mul", "{}")

OpenAIMessages ==
    [content : {None, Some(""), Some("hello")},
     tool_calls : {None, Some(<<>>), Some(<<Call1>>), Some(<<Call1, Call2>>),
                   Some(<<Call2, Call1>>)}]
FinishReasons == {None, Some("stop"), Some("tool_calls"), Some("length")}
OpenAIChoices == [message : OpenAIMessages, finish_reason : FinishReasons]
SecondChoice ==
    [message |-> [content |-> Some("second"), tool_calls |-> Some(<<Call2>>)],
     finish_reason |-> Some("tool_calls")]
OpenAIBodies ==
    [choices : {<<>>} \cup {<<c>> : c \in OpenAIChoices}
                      \cup {<<c, SecondChoice>> : c \in OpenAIChoices},
     usage : {None, Some(Usage1), Some(Usage2)}]
OpenAIExchanges ==
    {HttpOk(b) : b \in OpenAIBodies}
        \cup {HttpError(429, Some("Rate limit reached"), "{..}"),
              HttpError(500, None, "upstream failure")}

\* The one call of completion of a behaviour.
OpenAICompletion ==
    \E provider \in {"OpenAI", "Ollama"}, http \in OpenAIExchanges :
        /\ oaResult.result = "none"
        /\ oaCall' = [provider |-> provider, http |-> http]
        /\ oaResult' = openai_completion(provider, http)
        /\ requests' = requests + openai_completion_requests(provider)
        /\ UNCHANGED <<regVars, streamVars, olVars, stCall, stResult, macroVars, encVars, pairVars>>

(***************************************************************************)
(* Part 4: the Ollama non-streaming path, src/src/providers/ollama.rs      *)
(* completion, from the HTTP response to the returned value.               *)
(***************************************************************************)
\* serde_json::Value, as far as tool-call arguments need it.
JNull == [t |-> "null", n |-> 0, s |-> "", fields |-> <<>>]
JNum(n) == [t |-> "num", n |-> n, s |-> "", fields |-> <<>>]
JStr(s) == [t |-> "str", n |-> 0, s |-> s, fields |-> <<>>]
JObj(fields) == [t |-> "obj", n |-> 0, s |-> "", fields |-> fields]
Member(key, value) == [key |-> key, value |-> value]

\* serde_json::to_string: the compact encoding (no whitespace) of a value.
RECURSIVE to_string(_)
to_string(v) ==
    LET RECURSIVE members(_)
        members(fs) ==
            IF fs = <<>> THEN ""
            ELSE "\"" \o Head(fs).key \o "\":" \o to_string(Head(fs).value)
                 \o (IF Len(fs) > 1 THEN "," \o members(Tail(fs)) ELSE "")
    IN CASE v.t = "null" -> "null"
         [] v.t = "num" -> ToString(v.n)
         [] v.t = "str" -> "\"" \o v.s \o "\""
         [] OTHER -> "{" \o members(v.fields) \o "}"

\* OllamaToolCall {id, function: {name, arguments: JsonValue}}
OllamaToolCall(id, name, arguments) ==
    [id |-> id, function |-> [name |-> name, arguments |-> arguments]]

\* Mutant of ToolCallArguments: the arguments value is taken for a string and
\* anything else becomes the empty string (as_str().unwrap_or_default()).
ToolCallArguments_as_str(arguments) ==
    IF arguments.t = "str" THEN arguments.s ELSE ""

\* The match on call.function.arguments (lines 228-231): a JSON string is
\* passed through, any other value is encoded with serde_json::to_string.
ToolCallArguments(arguments) ==
    IF arguments.t = "str" THEN arguments.s ELSE to_string(arguments)

\* Self::map_ollama_tool_calls: one ToolCallRequest per call, in order.
map_ollama_tool_calls(ollama_calls) ==
    [i \in DOMAIN ollama_calls |->
        ToolCallRequest(ollama_calls[i].id, ollama_calls[i].function.name,
                        ToolCallArguments(ollama_calls[i].function.arguments))]

\* Self::calculate_usage
calculate_usage(prompt_tokens, completion_tokens) ==
    IF IsSome(prompt_tokens) /\ IsSome(completion_tokens)
    THEN Some([prompt_tokens |-> prompt_tokens[1],
               completion_tokens |-> completion_tokens[1],
               total_tokens |-> prompt_tokens[1] + completion_tokens[1]])
    ELSE None

\* Message contents a model may produce in JSON mode. Each is the literal
\* text; from_str_payload gives what serde_json::from_str::<OllamaToolCallPayload>
\* makes of that text.
TextExample == "{\"tool_calls\":[{\"id\":\"x\",\"function\":{\"name\":\"f\",\"arguments\":{\"n\":1}}}]}"
TextSpaced == "{ \"tool_calls\": [ { \"id\": \"y\", \"function\": { \"name\": \"g\", \"arguments\": { \"n\": 1 } } } ] }"
TextTwoCalls == "{\"tool_calls\":[{\"id\":\"a\",\"function\":{\"name\":\"add\",\"arguments\":{\"a\":5,\"b\":3}}},{\"id\":\"b\",\"function\":{\"name\":\"mul\",\"arguments\":{}}}]}"
TextStringArguments == "{\"tool_calls\":[{\"id\":\"s\",\"function\":{\"name\":\"f\",\"arguments\":\"{\\\"n\\\": 1}\"}}]}"
TextNoCalls == "{\"tool_calls\":[]}"
TextOtherJson == "{\"answer\":4}"
TextPlain == "The answer is 4."

ContentTexts == {TextExample, TextSpaced, TextTwoCalls, TextStringArguments,
                 TextNoCalls, TextOtherJson, TextPlain}

\* serde_json::from_str::<OllamaToolCallPayload>(content): Some(tool_calls)
\* when the text is a JSON object with a well-typed tool_calls array, None
\* for the parse error.
from_str_payload(text) ==
    CASE text = TextExample ->
           Some(<<OllamaToolCall("x", "f", JObj(<<Member("n", JNum(1))>>))>>)
      [] text = TextSpaced ->
           Some(<<OllamaToolCall("y", "g", JObj(<<Member("n", JNum(1))>>))>>)
      [] text = TextTwoCalls ->
           Some(<<OllamaToolCall("a", "add",
                      JObj(<<Member("a", JNum(5)), Member("b", JNum(3))>>)),
                  OllamaToolCall("b", "mul", JObj(<<>>))>>)
      [] text = TextStringArguments ->
           Some(<<OllamaToolCall("s", "f", JStr("{\"n\": 1}"))>>)
      [] text = TextNoCalls -> Some(<<>>)
      [] OTHER -> None

\* The response body as a JSON value, by the members the parsers look at:
\*   envelope    model, created_at and done are present and well typed
\*   mistyped    a tool_calls member is present but is no array of
\*               {id, function: {name, arguments}}
\*   tool_calls  the top-level tool_calls array, when present and well typed
\*   message     the message member {role, content}, when present
OllamaBody(envelope, done, prompt, eval, message, tool_calls, mistyped) ==
    [envelope |-> envelope, done |-> done,
     prompt_eval_count |-> prompt, eval_count |-> eval,
     message |-> message, tool_calls |-> tool_calls, mistyped |-> mistyped]

\* serde_json::from_value::<OllamaJsonResponse>(raw) is Ok
ParsesAsJsonResponse(body) == body.envelope /\ ~body.mistyped

\* serde_json::from_value::<OllamaToolCallPayload>(raw) is Ok
ParsesAsPayload(body) == IsSome(body.tool_calls) /\ ~body.mistyped

\* Lines 319-390: the response parsed in JSON mode.
ParseJsonMode(body) ==
    IF ParsesAsJsonResponse(body)
    THEN LET usage == calculate_usage(body.prompt_eval_count, body.eval_count)
         IN IF IsSome(body.tool_calls)
            THEN OkResponse(ToolCall(map_ollama_tool_calls(body.tool_calls[1])),
                            usage,
                            IF body.done THEN Some("tool_calls") ELSE None)
            ELSE IF IsSome(body.message)
            THEN IF IsSome(body.message[1].content)
                 THEN LET payload == from_str_payload(body.message[1].content[1])
                      IN IF IsSome(payload)
                         THEN OkResponse(
                                  ToolCall(map_ollama_tool_calls(payload[1])),
                                  usage,
                                  IF body.done THEN Some("tool_calls") ELSE None)
                         ELSE OkResponse(Message(body.message[1].content[1]),
                                         usage,
                                         IF body.done THEN Some("stop") ELSE None)
                 ELSE OkResponse(Message(""), usage,
                                 IF body.done THEN Some("stop") ELSE None)
            ELSE ProviderError("ParseError", 0,
                     "Ollama JSON response did not contain expected 'message' or 'tool_calls' field.")
    ELSE IF ParsesAsPayload(body)
         THEN OkResponse(ToolCall(map_ollama_tool_calls(body.tool_calls[1])),
                         None, Some("tool_calls"))
         ELSE ProviderError("ParseError", 0, "serde_json error")

\* Lines 392-399: the response parsed as OllamaStandardResponse; res.json()
\* fails with a reqwest error when the body does not match.
ParseStandard(body) ==
    IF body.envelope /\ IsSome(body.message)
    THEN OkResponse(Message(IF IsSome(body.message[1].content)
                            THEN body.message[1].content[1] ELSE ""),
                    calculate_usage(body.prompt_eval_count, body.eval_count),
                    IF body.done THEN Some("stop") ELSE None)
    ELSE ProviderError("RequestError", 0, "error decoding response body")

\* Lines 252-254: JSON mode is used when the request has a non-empty tool
\* list.
use_json_format(request_tools) ==
    IsSome(request_tools) /\ request_tools[1] # <<>>

\* OllamaProvider::completion, from the configured provider, the request's
\* tools and the HTTP exchange to the returned value (lines 241-401).
ollama_completion(provider, request_tools, http) ==
    IF provider # "Ollama" /\ provider # "Custom"
    THEN ProviderError("ConfigError", 0,
                       "Invalid provider configured for OllamaProvider")
    ELSE IF ~is_success(http.status)
    THEN ProviderError("ApiError", http.status,
                       IF IsSome(http.envelope) THEN http.envelope[1]
                       ELSE http.raw)
    ELSE IF use_json_format(request_tools) THEN ParseJsonMode(http.body)
    ELSE ParseStandard(http.body)

\* How many HTTP requests completion sends: one, after the provider check
\* (the request is sent at lines 300-305).
ollama_completion_requests(provider) ==
    IF provider # "Ollama" /\ provider # "Custom" THEN 0 ELSE 1

EmptyOllamaBody == OllamaBody(FALSE, FALSE, None, None, None, None, FALSE)
OllamaHttpError(status, envelope, raw) ==
    [status |-> status, envelope |-> envelope, raw |-> raw,
     body |-> EmptyOllamaBody]
OllamaHttpOk(body) ==
    [status |-> 200, envelope |-> None, raw |-> "", body |-> body]

OlInit ==
    /\ olCall = [provider |-> "Ollama", request_tools |-> None,
                 http |-> OllamaHttpOk(EmptyOllamaBody)]
    /\ olResult = ProviderError("none", 0, "")

\* The inputs of the model.
TopLevelCall == OllamaToolCall("top", "mul", JObj(<<Member("k", JNum(2))>>))
OllamaMessages ==
    {None, Some([role |-> "assistant", content |-> None])}
        \cup {Some([role |-> "assistant", content |-> Some(t)]) : t \in ContentTexts}
OllamaCounts == {<<None, None>>, <<Some(3), None>>, <<Some(3), Some(2)>>}
OllamaBodies ==
    {OllamaBody(e, d, c[1], c[2], m, tc[1], tc[2]) :
        e \in BOOLEAN, d \in BOOLEAN, c \in OllamaCounts, m \in OllamaMessages,
        tc \in {<<None, FALSE>>, <<Some(<<TopLevelCall>>), FALSE>>,
                <<None, TRUE>>}}
OllamaExchanges ==
    {OllamaHttpOk(b) : b \in OllamaBodies}
        \cup {OllamaHttpError(429, Some("rate limited"), "{\"error\":\"rate limited\"}"),
              OllamaHttpError(500, None, "upstream failure")}
RequestTools == {None, Some(<<>>), Some(<<"add">>)}

\* The one call of completion of a behaviour.
OllamaCompletion ==
    \E provider \in {"Ollama", "Custom", "OpenAI"}, rt \in RequestTools,
       http \in OllamaExchanges :
        /\ olResult.result = "none"
        /\ olCall' = [provider |-> provider, request_tools |-> rt, http |-> http]
        /\ olResult' = ollama_completion(provider, rt, http)
        /\ requests' = requests + ollama_completion_requests(provider)
        /\ UNCHANGED <<regVars, streamVars, oaVars, stCall, stResult, macroVars, encVars, pairVars>>

(***************************************************************************)
(* Part 5: completion_stream on both adapters, from the call to the stream *)
(* it returns, and the closure of the Ollama stream.                       *)
(***************************************************************************)
\* Provider (src/src/config.rs)
Providers == {"OpenAI", "Ollama", "Anthropic", "Custom"}

\* Ok(Box::pin(chunk_stream)): the call returned a stream.
OkStream ==
    [result |-> "Stream", status |-> 0, message |-> "", response |-> NoResponse]

\* The HTTP response as completion_stream sees it before it reads the body
\* as a stream: the status and, for a non-success status, the error body
\* (the message of the adapter's error envelope when it parses as one, and
\* its raw text).
StreamResponse(status, envelope, raw) ==
    [status |-> status, envelope |-> envelope, raw |-> raw]

\* Mutant of openai_completion_stream: the status of the response is not
\* looked at, and the body of an error response is read as the stream.
openai_completion_stream_any_status(provider, request_tools, http) ==
    IF IsSome(request_tools)
    THEN ProviderError("Unsupported", 0,
             "Streaming tool calls are not currently supported by the OpenAI provider implementation.")
    ELSE IF provider # "OpenAI"
    THEN ProviderError("ConfigError", 0,
                       "Invalid provider configured for OpenAIProvider")
    ELSE OkStream

\* OpenAIProvider::completion_stream up to the returned value (lines
\* 348-393 and 495).
openai_completion_stream(provider, request_tools, http) ==
    IF IsSome(request_tools)
    THEN ProviderError("Unsupported", 0,
             "Streaming tool calls are not currently supported by the OpenAI provider implementation.")
    ELSE IF provider # "OpenAI"
    THEN ProviderError("ConfigError", 0,
                       "Invalid provider configured for OpenAIProvider")
    ELSE IF ~is_success(http.status)
    THEN ProviderError("ApiError", http.status,
                       IF IsSome(http.envelope) THEN http.envelope[1]
                       ELSE http.raw)
    ELSE OkStream

\* How many HTTP requests it sends: one, at line 379, after both checks.
openai_completion_stream_requests(provider, request_tools) ==
    IF IsSome(request_tools) \/ provider # "OpenAI" THEN 0 ELSE 1

\* Mutant of ollama_completion_stream: only a non-empty tool list is
\* rejected, as completion decides its JSON mode.
ollama_completion_stream_nonempty_tools(provider, request_tools, http) ==
    IF IsSome(request_tools) /\ request_tools[1] # <<>>
    THEN ProviderError("Unsupported", 0,
             "Streaming tool calls are not currently supported by the Ollama provider (requires format=json which disables streaming).")
    ELSE IF provider # "Ollama" /\ provider # "Custom"
    THEN ProviderError("ConfigError", 0,
                       "Invalid provider configured for OllamaProvider")
    ELSE IF ~is_success(http.status)
    THEN ProviderError("ApiError", http.status,
                       IF IsSome(http.envelope) THEN http.envelope[1]
                       ELSE http.raw)
    ELSE OkStream

\* OllamaProvider::completion_stream up to the returned value (lines
\* 404-451 and 493).
ollama_completion_stream(provider, request_tools, http) ==
    IF IsSome(request_tools)
    THEN ProviderError("Unsupported", 0,
             "Streaming tool calls are not currently supported by the Ollama provider (requires format=json which disables streaming).")
    ELSE IF provider # "Ollama" /\ provider # "Custom"
    THEN ProviderError("ConfigError", 0,
                       "Invalid provider configured for OllamaProvider")
    ELSE IF ~is_success(http.status)
    THEN ProviderError("ApiError", http.status,
                       IF IsSome(http.envelope) THEN http.envelope[1]
                       ELSE http.raw)
    ELSE OkStream

\* How many HTTP requests it sends: one, at lines 432-438, after both checks.
ollama_completion_stream_requests(provider, request_tools) ==
    IF IsSome(request_tools) \/ (provider # "Ollama" /\ provider # "Custom")
    THEN 0 ELSE 1

\* OllamaChatStreamResponse {message: {content}, done, done_reason,
\* prompt_eval_count, eval_count} on one line of a read.
OllamaLine(content, done, done_reason, prompt, eval) ==
    [kind |-> "frame",
     frame |-> [content |-> content, done |-> done, done_reason |-> done_reason,
                prompt_eval_count |-> prompt, eval_count |-> eval]]

\* A line of an Ollama read that is no frame: "empty" (skipped) or
\* "malformed" (bytes that do not parse as OllamaChatStreamResponse).
OllamaPlainLine(kind) ==
    [kind |-> kind,
     frame |-> [content |-> "", done |-> FALSE, done_reason |-> None,
                prompt_eval_count |-> None, eval_count |-> None]]

\* The locals of one run of the Ollama closure.
OllamaClosureStart == [result_chunk |-> None, error |-> FALSE]

\* The body of `for line in lines` (ollama.rs lines 461-488).
OllamaProcessLine(st, line) ==
    CASE line.kind = "frame" ->
           IF line.frame.content # "" \/ line.frame.done
           THEN [st EXCEPT !.result_chunk =
                    Some(TextChunk(line.frame.content,
                                   calculate_usage(line.frame.prompt_eval_count,
                                                   line.frame.eval_count),
                                   line.frame.done_reason))]
           ELSE st
      [] line.kind = "malformed" -> [st EXCEPT !.error = TRUE]
      [] OTHER -> st

\* The loop over the lines of one read; a parse error returns at once.
RECURSIVE OllamaProcessLines(_, _)
OllamaProcessLines(st, lines) ==
    IF lines = <<>> \/ st.error THEN st
    ELSE OllamaProcessLines(OllamaProcessLine(st, Head(lines)), Tail(lines))

\* What the closure returns for one read, as the items the stream yields
\* for it.
OllamaClosureItems(st) ==
    IF st.error THEN <<ParseErrorItem>>
    ELSE IF IsSome(st.result_chunk) THEN <<ChunkItem(st.result_chunk[1])>>
    ELSE <<>>

\* The Ollama stream is polled and the connection delivers one read.
OllamaPoll(read) ==
    /\ LineCount(history) + Len(read) <= MaxFrames
    /\ emitted' = emitted \o OllamaClosureItems(
                                 OllamaProcessLines(OllamaClosureStart, read))
    /\ history' = Append(history, read)
    /\ UNCHANGED <<tool_call_aggregator, regVars, oaVars, olVars, openVars,
                   macroVars, encVars, pairVars>>

NoStreamCall ==
    [adapter |-> "", provider |-> "", request_tools |-> None,
     http |-> StreamResponse(0, None, "")]

OpenInit ==
    /\ stCall = NoStreamCall
    /\ stResult = ProviderError("none", 0, "")
    /\ requests = 0

\* The inputs of the model.
StreamExchanges ==
    {StreamResponse(200, None, ""),
     StreamResponse(429, Some("Rate limit reached"), "{..}"),
     StreamResponse(500, None, "upstream failure")}

OpenAIStreamLines ==
    {DataLine(Frame(Some("Hel"), None, None, None)),
     DataLine(Frame(None, None, Some("stop"), Some(Usage1))),
     DataLine(NoChoiceFrame(Some(Usage2))),
     PlainLine("malformed")}

OllamaStreamLines ==
    {OllamaLine("Hi", FALSE, None, None, None),
     OllamaLine("", FALSE, None, None, None),
     OllamaLine("", TRUE, Some("stop"), Some(3), Some(2)),
     OllamaLine("!", TRUE, Some("length"), Some(3), None),
     OllamaPlainLine("malformed")}

\* No adapter call has been made yet: a behaviour makes one.
NoCallYet ==
    /\ oaResult.result = "none"
    /\ olResult.result = "none"
    /\ stResult.result = "none"

AdapterOpenAICompletion == NoCallYet /\ OpenAICompletion
AdapterOllamaCompletion == NoCallYet /\ OllamaCompletion

\* The one call of OpenAIProvider::completion_stream of a behaviour.
OpenAIStreamOpen ==
    \E provider \in Providers, rt \in RequestTools, http \in StreamExchanges :
        /\ NoCallYet
        /\ stCall' = [adapter |-> "OpenAI", provider |-> provider,
                      request_tools |-> rt, http |-> http]
        /\ stResult' = openai_completion_stream(provider, rt, http)
        /\ requests' = requests + openai_completion_stream_requests(provider, rt)
        /\ UNCHANGED <<regVars, streamVars, oaVars, olVars, macroVars, encVars, pairVars>>

\* The one call of OllamaProvider::completion_stream of a behaviour.
OllamaStreamOpen ==
    \E provider \in Providers, rt \in RequestTools, http \in StreamExchanges :
        /\ NoCallYet
        /\ stCall' = [adapter |-> "Ollama", provider |-> provider,
                      request_tools |-> rt, http |-> http]
        /\ stResult' = ollama_completion_stream(provider, rt, http)
        /\ requests' = requests + ollama_completion_stream_requests(provider, rt)
        /\ UNCHANGED <<regVars, streamVars, oaVars, olVars, macroVars, encVars, pairVars>>

\* The caller polls the stream that completion_stream returned.
OpenAIStreamPoll ==
    \E read \in ReadsOver(OpenAIStreamLines) :
        /\ stResult.result = "Stream"
        /\ stCall.adapter = "OpenAI"
        /\ Poll(read)

OllamaStreamPoll ==
    \E read \in ReadsOver(OllamaStreamLines) :
        /\ stResult.result = "Stream"
        /\ stCall.adapter = "Ollama"
        /\ OllamaPoll(read)

AdaptersNext ==
    \/ AdapterOpenAICompletion
    \/ AdapterOllamaCompletion
    \/ OpenAIStreamOpen
    \/ OllamaStreamOpen
    \/ OpenAIStreamPoll
    \/ OllamaStreamPoll

(***************************************************************************)
(* Part 6: the merco_tool attribute macro, src/macros/src/lib.rs: from the *)
(* annotated function to the Tool that __get_tool_definition returns.      *)
(***************************************************************************)
\* A parameter type as written in the function signature: the kind of value
\* it holds, and the text that ty.to_token_stream().to_string() gives for it
\* under a printer that separates tokens with spaces and under one that
\* keeps the source spacing (the text depends on the toolchain).
RustType(kind, spaced, compact) ==
    [kind |-> kind, spaced |-> spaced, compact |-> compact]

TokenPrinters == {"spaced", "compact"}

\* ty.to_token_stream().to_string() (line 54)
to_token_string(ty, printer) ==
    IF printer = "spaced" THEN ty.spaced ELSE ty.compact

\* Lines 46-62: the (name, type text) pairs of the typed parameters.
fn_args(params, printer) ==
    [i \in DOMAIN params |->
        [name |-> params[i].name,
         type_str |-> to_token_string(params[i].ty, printer)]]

\* The match on type_str.as_str().trim() (lines 83-89).
type_json(type_str) ==
    IF type_str \in {"i8", "i16", "i32", "i64", "i128", "isize",
                     "u8", "u16", "u32", "u64", "u128", "usize"}
    THEN "integer"
    ELSE IF type_str \in {"f32", "f64"} THEN "number"
    ELSE IF type_str \in {"String", "& str", "&'static str"} THEN "string"
    ELSE IF type_str = "bool" THEN "boolean"
    ELSE "object"

\* props after the generated props.insert(..) statements (lines 91-93 and
\* 135-136): a map from parameter name to {"type": type_json}.
param_properties(args) ==
    [n \in {args[i].name : i \in DOMAIN args} |->
        LET last == CHOOSE i \in DOMAIN args :
                        /\ args[i].name = n
                        /\ \A j \in DOMAIN args : args[j].name = n => j <= i
        IN [type |-> type_json(args[last].type_str)]]

\* vec![#(#required_params),*] (lines 97-101 and 144)
required_params(args) == [i \in DOMAIN args |-> args[i].name]

\* The description attribute when given, else the default (lines 65-76).
tool_description(fn_name, description) ==
    IF IsSome(description) THEN description[1]
    ELSE "Tool function: " \o fn_name

\* __get_tool_definition (lines 131-147)
get_tool_definition(fn_name, description, args) ==
    [name |-> fn_name,
     description |-> tool_description(fn_name, description),
     parameters |-> [schema_type |-> "object",
                     properties |-> Some(param_properties(args)),
                     required |-> Some(required_params(args))]]

NoMacroCall ==
    [fn_name |-> "", description |-> None, params |-> <<>>, printer |-> ""]
NoMacroResult ==
    [name |-> "", description |-> "",
     parameters |-> [schema_type |-> "", properties |-> None,
                     required |-> None]]

MacroInit ==
    /\ macroCall = NoMacroCall
    /\ macroResult = NoMacroResult

\* The inputs of the model: functions of up to MaxParams parameters with
\* distinct names, of types the generated argument struct can hold.
ParamNames == {"a", "b"}
ParamTypes ==
    {RustType("integer", "i32", "i32"),
     RustType("integer", "u64", "u64"),
     RustType("integer", "usize", "usize"),
     RustType("floating", "f64", "f64"),
     RustType("string", "String", "String"),
     RustType("string", "std :: string :: String", "std::string::String"),
     RustType("boolean", "bool", "bool"),
     RustType("other", "Vec < i32 >", "Vec<i32>")}
Params == [name : ParamNames, ty : ParamTypes]
ParamLists ==
    {ps \in UNION {[1..k -> Params] : k \in 0..MaxParams} :
        \A i, j \in DOMAIN ps : ps[i].name = ps[j].name => i = j}

\* The one expansion of #[merco_tool] of a behaviour.
MacroExpand ==
    \E params \in ParamLists, printer \in TokenPrinters,
       description \in {None, Some("Adds numbers")} :
        /\ macroCall = NoMacroCall
        /\ macroCall' = [fn_name |-> "sum", description |-> description,
                         params |-> params, printer |-> printer]
        /\ macroResult' = get_tool_definition("sum", description,
                                              fn_args(params, printer))
        /\ UNCHANGED <<regVars, streamVars, oaVars, olVars, openVars, encVars, pairVars>>

(***************************************************************************)
(* Part 7: the request each adapter's completion puts on the wire:         *)
(* openai.rs lines 291-310 and ollama.rs lines 241-305.                    *)
(***************************************************************************)
\* ChatMessage and CompletionRequest (traits.rs).
ChatMessage(role, content, tool_calls, tool_call_id) ==
    [role |-> role, content |-> content, tool_calls |-> tool_calls,
     tool_call_id |-> tool_call_id]
CompletionRequest(messages, model, temperature, max_tokens, tool_list) ==
    [messages |-> messages, model |-> model, temperature |-> temperature,
     max_tokens |-> max_tokens, tools |-> tool_list]

\* Tool with its parameters schema (traits.rs Tool, JsonSchema).
JsonSchema(schema_type, properties, required) ==
    [schema_type |-> schema_type, properties |-> properties,
     required |-> required]
ToolDef(name, description, parameters) ==
    [name |-> name, description |-> description, parameters |-> parameters]

\* Two schemas: one property "a" of type number that is required, and a
\* schema whose properties and required are None.
SchemaOneNumber ==
    JsonSchema("object",
               Some(<<Member("a", JObj(<<Member("type", JStr("number"))>>))>>),
               Some(<<"a">>))
SchemaBare == JsonSchema("object", None, None)

\* serde_json::to_string_pretty(&tool.parameters): the schema as indented
\* JSON (two spaces a level, None as null), for the schemas of the model.
to_string_pretty(schema) ==
    CASE schema = SchemaOneNumber ->
           "{\n  \"type\": \"object\",\n  \"properties\": {\n    \"a\": {\n      \"type\": \"number\"\n    }\n  },\n  \"required\": [\n    \"a\"\n  ]\n}"
      [] schema = SchemaBare ->
           "{\n  \"type\": \"object\",\n  \"properties\": null,\n  \"required\": null\n}"
      [] OTHER -> "(unmodelled schema)"

\* The text format_tools_for_prompt starts from (ollama.rs line 196).
ToolPromptPreamble == "You have access to the following tools. Use them if necessary by outputting ONLY a JSON object with a single key 'tool_calls' containing a list of calls. Each call object in the list should have 'id' (a unique lowercase string), and 'function' containing 'name' (the tool name) and 'arguments' (a JSON object matching the tool's parameters schema). Do not output any other text, explanation, or markdown formatting around the JSON object.\n\nAvailable Tools:\n"

\* OllamaProvider::format_tools_for_prompt: three lines a tool, in order.
RECURSIVE format_tools_for_prompt_from(_, _)
format_tools_for_prompt_from(tool_desc, tool_list) ==
    IF tool_list = <<>> THEN tool_desc
    ELSE LET tool == Head(tool_list)
         IN format_tools_for_prompt_from(
                tool_desc \o "- Name: " \o tool.name \o "\n"
                    \o "  Description: " \o tool.description \o "\n"
                    \o "  Parameters Schema: "
                    \o to_string_pretty(tool.parameters) \o "\n",
                Tail(tool_list))
format_tools_for_prompt(tool_list) ==
    format_tools_for_prompt_from(ToolPromptPreamble, tool_list)

\* original_messages.iter_mut().find(|m| m.role == System): the position
\* of the first system message, 0 when there is none.
FindSystem(messages) ==
    IF \E i \in DOMAIN messages : messages[i].role = "system"
    THEN CHOOSE i \in DOMAIN messages :
             /\ messages[i].role = "system"
             /\ \A j \in 1..(i - 1) : messages[j].role # "system"
    ELSE 0

\* Mutant of AddToolPrompt: the prompt always goes into a new system
\* message at the front.
AddToolPrompt_always_insert(messages, tool_prompt) ==
    <<ChatMessage("system", Some(tool_prompt), None, None)>> \o messages

\* ollama.rs lines 258-270: the tool prompt is appended to the first system
\* message (content.take().unwrap_or_default(), then "{}\n\n{}"), or a new
\* system message holding it is inserted at position 0.
AddToolPrompt(messages, tool_prompt) ==
    LET i == FindSystem(messages)
    IN IF i # 0
       THEN LET existing_content == IF IsSome(messages[i].content)
                                    THEN messages[i].content[1] ELSE ""
            IN [messages EXCEPT ![i].content =
                   Some(existing_content \o "\n\n" \o tool_prompt)]
       ELSE <<ChatMessage("system", Some(tool_prompt), None, None)>>
                \o messages

\* Mutant of messages_for_ollama_request: the history is sent as it is.
messages_for_ollama_request_as_is(original_messages) == original_messages

\* ollama.rs lines 275-286: every message with tool_calls set to None.
messages_for_ollama_request(original_messages) ==
    [i \in DOMAIN original_messages |->
        [original_messages[i] EXCEPT !.tool_calls = None]]

\* OllamaProvider::create_ollama_options
create_ollama_options(request) ==
    IF IsSome(request.temperature) \/ IsSome(request.max_tokens)
    THEN Some([temperature |-> request.temperature,
               num_predict |-> request.max_tokens])
    ELSE None

\* OllamaChatRequest as completion builds it (ollama.rs lines 248-295). A
\* None member is left out of the JSON (skip_serializing_if).
ollama_request(request) ==
    LET json == use_json_format(request.tools)
        original_messages ==
            IF json
            THEN AddToolPrompt(request.messages,
                               format_tools_for_prompt(request.tools[1]))
            ELSE request.messages
    IN [model |-> request.model,
        messages |-> messages_for_ollama_request(original_messages),
        stream |-> FALSE,
        format |-> IF json THEN Some("json") ELSE None,
        options |-> create_ollama_options(request)]

\* Mutant of map_tools_to_openai: the tools in reverse order.
map_tools_to_openai_reversed(tool_list) ==
    IF IsSome(tool_list)
    THEN Some([i \in DOMAIN tool_list[1] |->
                  LET tool == tool_list[1][Len(tool_list[1]) + 1 - i]
                  IN [tool_type |-> "function",
                      function |-> [name |-> tool.name,
                                    description |-> tool.description,
                                    parameters |-> tool.parameters]]])
    ELSE None

\* OpenAIProvider::map_tools_to_openai
map_tools_to_openai(tool_list) ==
    IF IsSome(tool_list)
    THEN Some([i \in DOMAIN tool_list[1] |->
                  [tool_type |-> "function",
                   function |-> [name |-> tool_list[1][i].name,
                                 description |-> tool_list[1][i].description,
                                 parameters |-> tool_list[1][i].parameters]]])
    ELSE None

\* OpenAIChatRequest as completion builds it (openai.rs lines 298-307).
openai_request(request) ==
    [model |-> request.model,
     messages |-> request.messages,
     temperature |-> request.temperature,
     max_tokens |-> request.max_tokens,
     stream |-> FALSE,
     tools |-> map_tools_to_openai(request.tools),
     tool_choice |-> IF IsSome(request.tools) THEN Some("auto") ELSE None]

NoEncCall ==
    [adapter |-> "", provider |-> "",
     request |-> CompletionRequest(<<>>, "", None, None, None)]

EncInit ==
    /\ encCall = NoEncCall
    /\ encResult = None

\* The inputs of the model: histories of up to MaxMessages messages (two
\* system messages, one of them without content, a user message, an
\* assistant message that requested a tool call, and the tool's result),
\* with no tools, an empty tool list, one tool or two.
EncMessages ==
    {ChatMessage("system", Some("Be brief."), None, None),
     ChatMessage("system", None, None, None),
     ChatMessage("user", Some("What is 2+2?"), None, None),
     ChatMessage("assistant", None,
                 Some(<<ToolCallRequest("call_1", "add", "{\"a\":2,\"b\":2}")>>),
                 None),
     ChatMessage("tool", Some("4"), None, Some("call_1"))}
MessageLists == UNION {[1..k -> EncMessages] : k \in 0..MaxMessages}
ToolAdd == ToolDef("add", "Add a number", SchemaOneNumber)
ToolNow == ToolDef("now", "Current time", SchemaBare)
ToolLists == {None, Some(<<>>), Some(<<ToolAdd>>), Some(<<ToolAdd, ToolNow>>)}
Temperatures == {None, Some("0.7")}
TokenLimits == {None, Some(256)}
Requests ==
    {CompletionRequest(m, "model-1", t, l, ts) :
        m \in MessageLists, t \in Temperatures, l \in TokenLimits,
        ts \in ToolLists}

\* The one call of OpenAIProvider::completion of a behaviour, up to the
\* request it sends (none on a mismatched configuration).
OpenAIEncode ==
    \E provider \in {"OpenAI", "Ollama"}, request \in Requests :
        /\ encCall = NoEncCall
        /\ encCall' = [adapter |-> "OpenAI", provider |-> provider,
                       request |-> request]
        /\ encResult' = IF openai_completion_requests(provider) = 1
                        THEN Some(openai_request(request)) ELSE None
        /\ UNCHANGED <<regVars, streamVars, oaVars, olVars, openVars, macroVars, pairVars>>

\* The one call of OllamaProvider::completion of a behaviour, up to the
\* request it sends.
OllamaEncode ==
    \E provider \in {"Ollama", "OpenAI"}, request \in Requests :
        /\ encCall = NoEncCall
        /\ encCall' = [adapter |-> "Ollama", provider |-> provider,
                       request |-> request]
        /\ encResult' = IF ollama_completion_requests(provider) = 1
                        THEN Some(ollama_request(request)) ELSE None
        /\ UNCHANGED <<regVars, streamVars, oaVars, olVars, openVars, macroVars, pairVars>>

EncodeNext == OpenAIEncode \/ OllamaEncode

(***************************************************************************)
(* Part 8: two streams open at the same time, each polled by its own       *)
(* task; the closures run one line at a time and interleave freely.        *)
(* openai.rs lines 392-495, ollama.rs lines 450-493.                       *)
(***************************************************************************)
StreamIds == {1, 2}

\* Mutant of NewAggregator: one aggregator for the whole process (a static),
\* created by the first stream and captured by every later one.
NewAggregator_static(heap) ==
    IF heap = <<>> THEN [heap |-> <<EmptyAggregator>>, address |-> 1]
    ELSE [heap |-> heap, address |-> 1]

\* openai.rs line 393: Arc::new(Mutex::new(HashMap::new())), a new
\* allocation on every call of completion_stream; the closure captures it.
NewAggregator(heap) ==
    [heap |-> Append(heap, EmptyAggregator), address |-> Len(heap) + 1]

\* A stream that has not been opened; read and next are the lines of the
\* network read its closure is running on and the line it is at, locals the
\* closure's local variables.
NoStream ==
    [open |-> FALSE, adapter |-> "", aggregator |-> 0, history |-> <<>>,
     emitted |-> <<>>, busy |-> FALSE, read |-> <<>>, next |-> 1,
     locals |-> OllamaClosureStart]

PairInit ==
    /\ aggregators = <<>>
    /\ streams = [s \in StreamIds |-> NoStream]

\* The lines delivered to all streams so far.
PairLineCount ==
    LET RECURSIVE sum(_)
        sum(S) == IF S = {} THEN 0
                  ELSE LET s == CHOOSE x \in S : TRUE
                       IN LineCount(streams[s].history) + Len(streams[s].read)
                          + sum(S \ {s})
    IN sum(StreamIds)

\* completion_stream returns a stream on the OpenAI adapter.
PairOpenOpenAI(s) ==
    /\ ~streams[s].open
    /\ LET new == NewAggregator(aggregators)
       IN /\ aggregators' = new.heap
          /\ streams' = [streams EXCEPT ![s] =
                 [NoStream EXCEPT !.open = TRUE, !.adapter = "OpenAI",
                                  !.aggregator = new.address]]
    /\ UNCHANGED <<regVars, streamVars, oaVars, olVars, openVars, macroVars, encVars>>

\* completion_stream returns a stream on the Ollama adapter; its closure
\* captures nothing.
PairOpenOllama(s) ==
    /\ ~streams[s].open
    /\ streams' = [streams EXCEPT ![s] =
           [NoStream EXCEPT !.open = TRUE, !.adapter = "Ollama"]]
    /\ UNCHANGED aggregators
    /\ UNCHANGED <<regVars, streamVars, oaVars, olVars, openVars, macroVars, encVars>>

\* The connection of stream s delivers a read and its closure starts.
PairRead(s, read) ==
    /\ streams[s].open /\ ~streams[s].busy
    /\ PairLineCount + Len(read) <= MaxFrames
    /\ streams' = [streams EXCEPT ![s].busy = TRUE, ![s].read = read,
                                  ![s].next = 1,
                                  ![s].locals =
                                      IF streams[s].adapter = "OpenAI"
                                      THEN ClosureStart(EmptyAggregator)
                                      ELSE OllamaClosureStart]
    /\ UNCHANGED aggregators
    /\ UNCHANGED <<regVars, streamVars, oaVars, olVars, openVars, macroVars, encVars>>

\* The closure of an OpenAI stream processes its next line: it locks the
\* aggregator it captured, merges, and drops the guard.
PairLineOpenAI(s) ==
    /\ streams[s].busy /\ streams[s].adapter = "OpenAI"
    /\ streams[s].next <= Len(streams[s].read) /\ ~streams[s].locals.error
    /\ LET a == streams[s].aggregator
           st == ProcessLine([streams[s].locals EXCEPT !.agg = aggregators[a]],
                             streams[s].read[streams[s].next])
       IN /\ aggregators' = [aggregators EXCEPT ![a] = st.agg]
          /\ streams' = [streams EXCEPT ![s].next = @ + 1,
                                        ![s].locals = [st EXCEPT !.agg = EmptyAggregator]]
    /\ UNCHANGED <<regVars, streamVars, oaVars, olVars, openVars, macroVars, encVars>>

\* The closure of an Ollama stream processes its next line.
PairLineOllama(s) ==
    /\ streams[s].busy /\ streams[s].adapter = "Ollama"
    /\ streams[s].next <= Len(streams[s].read) /\ ~streams[s].locals.error
    /\ streams' = [streams EXCEPT ![s].next = @ + 1,
                                  ![s].locals = OllamaProcessLine(
                                      @, streams[s].read[streams[s].next])]
    /\ UNCHANGED aggregators
    /\ UNCHANGED <<regVars, streamVars, oaVars, olVars, openVars, macroVars, encVars>>

\* The closure returns (after the last line, or at a parse error) and the
\* stream yields what it returned.
PairReturn(s) ==
    /\ streams[s].busy
    /\ streams[s].next > Len(streams[s].read) \/ streams[s].locals.error
    /\ streams' = [streams EXCEPT
           ![s].busy = FALSE, ![s].read = <<>>, ![s].next = 1,
           ![s].history = Append(@, streams[s].read),
           ![s].emitted = @ \o (IF streams[s].adapter = "OpenAI"
                                THEN ClosureItems(streams[s].locals)
                                ELSE OllamaClosureItems(streams[s].locals)),
           ![s].locals = OllamaClosureStart]
    /\ UNCHANGED aggregators
    /\ UNCHANGED <<regVars, streamVars, oaVars, olVars, openVars, macroVars, encVars>>

\* The inputs of the model.
PairOpenAILines ==
    {DataLine(Frame(None, Some(<<Fragment1>>), None, None)),
     DataLine(Frame(Some("Hel"), None, None, None))}
PairOllamaLines ==
    {OllamaLine("Hi", FALSE, None, None, None),
     OllamaLine("", TRUE, Some("stop"), Some(3), Some(2))}

PairNext ==
    \E s \in StreamIds :
        \/ PairOpenOpenAI(s)
        \/ PairOpenOllama(s)
        \/ \E read \in ReadsOver(PairOpenAILines) :
               streams[s].adapter = "OpenAI" /\ PairRead(s, read)
        \/ \E read \in ReadsOver(PairOllamaLines) :
               streams[s].adapter = "Ollama" /\ PairRead(s, read)
        \/ PairLineOpenAI(s)
        \/ PairLineOllama(s)
        \/ PairReturn(s)

(***************************************************************************)
(* Specifications.                                                         *)
(***************************************************************************)
Init ==
    /\ RegInit /\ StreamInit /\ OaInit /\ OlInit /\ OpenInit /\ MacroInit
    /\ EncInit /\ PairInit

SpecRegistry == Init /\ [][RegNext]_vars
SpecStreamToolCalls == Init /\ [][StreamToolCallsNext]_vars
SpecStreamChunks == Init /\ [][StreamChunksNext]_vars
SpecStreamClear == Init /\ [][StreamClearNext]_vars
SpecOpenAICompletion == Init /\ [][OpenAICompletion]_vars
SpecOllamaCompletion == Init /\ [][OllamaCompletion]_vars
SpecAdapters == Init /\ [][AdaptersNext]_vars
SpecMacro == Init /\ [][MacroExpand]_vars
SpecStreamOverwrite == Init /\ [][StreamOverwriteNext]_vars
SpecEncode == Init /\ [][EncodeNext]_vars
SpecReentrant == Init /\ [][ReentrantNext]_vars
SpecStreamSnapshots == Init /\ [][StreamSnapshotsNext]_vars
SpecTwoStreams == Init /\ [][PairNext]_vars


(***************************************************************************)
(* Claims about the tool registry, checked under SpecRegistry.             *)
(***************************************************************************)
InOperation == {"locked", "failed", "running"}

\* How often descriptor-or-name x occurs in sequence l.
Occurrences(l, x) == Cardinality({i \in DOMAIN l : l[i] = x})

IsNotFoundError(r, name) ==
    r = [kind |-> "Err", val |-> "Tool '" \o name \o "' not found in registry",
         list |-> <<>>]

IsLockError(r) ==
    /\ r.kind = "Err"
    /\ r.val = "Failed to lock registry: poisoned lock: another task failed inside"

\* C2 as stated: an execute for a name that was never registered returns the
\* not-found error, enters no executor and leaves the registry as it was.
C2_Original ==
    (lastCall.op = "execute" /\ ~lastCall.prior.present) =>
        /\ IsNotFoundError(lastCall.result, lastCall.name)
        /\ lastCall.invoked = <<>>
        /\ ~lastCall.changed

\* C2 as amended: an execute for a name that was never registered returns an
\* error value and never panics: the not-found error whenever the lock was
\* acquired, the lock-failure error when the global lock is poisoned; in both
\* cases no executor is entered and the registry is left as it was.
C2_MissingNameFails ==
    (lastCall.op = "execute" /\ ~lastCall.prior.present) =>
        /\ lastCall.acquired => IsNotFoundError(lastCall.result, lastCall.name)
        /\ ~lastCall.acquired => IsLockError(lastCall.result)
        /\ lastCall.invoked = <<>>
        /\ ~lastCall.changed

\* C2 witness: the not-found error came back for an unregistered name while
\* another tool, one whose executor panics, was registered.
C2_Witness ==
    /\ lastCall.op = "execute" /\ lastCall.acquired
    /\ ~lastCall.prior.present
    /\ IsNotFoundError(lastCall.result, lastCall.name)
    /\ \E n \in ToolNames : tools[n].present /\ tools[n].executor = "boom"

C4_Original ==
    (lastCall.op = "get_by_names") =>
        /\ lastCall.result.kind = "Tools"
        /\ \A n \in ToolNames :
              Occurrences(lastCall.result.list, lastCall.registered[n]) =
                  IF lastCall.registered[n] = NoTool THEN 0
                  ELSE Occurrences(lastCall.names, n)
        /\ \A i \in DOMAIN lastCall.result.list :
              \E n \in ToolNames : /\ lastCall.result.list[i] = lastCall.registered[n]
                                   /\ Occurrences(lastCall.names, n) > 0

\* C4 as amended: when the lock was acquired, get_by_names returns the last
\* registered descriptor of every requested name that is registered, once per
\* request of it, and nothing else, with no error for unknown names; when the
\* lock is poisoned it returns the empty sequence.
C4_GetByNames ==
    (lastCall.op = "get_by_names") =>
        /\ lastCall.result.kind = "Tools"
        /\ ~lastCall.acquired => lastCall.result.list = <<>>
        /\ lastCall.acquired =>
              /\ \A n \in ToolNames :
                    Occurrences(lastCall.result.list, lastCall.registered[n]) =
                        IF lastCall.registered[n] = NoTool THEN 0
                        ELSE Occurrences(lastCall.names, n)
              /\ \A i \in DOMAIN lastCall.result.list :
                    \E n \in ToolNames :
                        /\ lastCall.result.list[i] = lastCall.registered[n]
                        /\ Occurrences(lastCall.names, n) > 0

\* C4 witness: a request for one registered and one unknown name returned the
\* one descriptor while a tool that was not asked for was registered too.
C4_Witness ==
    /\ lastCall.op = "get_by_names" /\ lastCall.acquired
    /\ lastCall.names = <<"missing", "add">>
    /\ Len(lastCall.result.list) = 1
    /\ lastCall.result.list[1].name = "add"
    /\ lastCall.registered["mul"] # NoTool

\* C5: at most one thread is inside a registry operation (between lock() and
\* the drop of the guard) at any time, and that thread is the mutex owner.
C5_MutualExclusion ==
    /\ Cardinality({t \in Threads : pc[t] \in InOperation}) <= 1
    /\ \A t \in Threads : pc[t] \in InOperation <=> holder = t

\* C5 witness: one thread is in the middle of a registration while another
\* thread, which has finished an operation before, is kept outside.
C5_Witness ==
    \E t, u \in Threads :
        /\ t # u
        /\ pc[t] = "locked" /\ call[t].op = "register"
        /\ tools[call[t].name].present
        /\ pc[u] = "idle"
        /\ lastCall.op = "execute"

\* C6: on a poisoned lock no registry function panics or reaches the
\* registry: get_all and get_by_names return the empty sequence, register
\* returns without changing the registry, execute returns the lock-failure
\* error without entering an executor; and once the lock is poisoned no
\* thread is on the normal path of an operation.
C6_PoisonedDegrades ==
    /\ \A t \in Threads : poisoned => pc[t] \notin {"locked", "running"}
    /\ \A t \in Threads : pc[t] = "failed" => poisoned
    /\ (lastCall.op # "none" /\ ~lastCall.acquired) =>
          /\ lastCall.result.kind # "Panic"
          /\ ~lastCall.changed
          /\ lastCall.invoked = <<>>
          /\ lastCall.op \in {"get_all", "get_by_names"} =>
                lastCall.result = [kind |-> "Tools", val |-> "", list |-> <<>>]
          /\ lastCall.op = "register" => lastCall.result.kind = "Unit"
          /\ lastCall.op = "execute" => IsLockError(lastCall.result)

\* C6 witness: on a poisoned lock, an execute of a registered name has
\* returned the lock-failure error and the registry still holds its tools.
C6_Witness ==
    /\ poisoned
    /\ lastCall.op = "execute" /\ ~lastCall.acquired
    /\ lastCall.prior.present
    /\ IsLockError(lastCall.result)
    /\ \A n \in ToolNames : tools[n].present


(***************************************************************************)
(* Claims about the OpenAI streaming path.                                 *)
(***************************************************************************)
RECURSIVE Flatten(_)
Flatten(reads) ==
    IF reads = <<>> THEN <<>> ELSE Head(reads) \o Flatten(Tail(reads))

\* The frames delivered so far, in arrival order.
FramesSeen ==
    LET lines == Flatten(history)
        RECURSIVE frames(_)
        frames(ls) ==
            IF ls = <<>> THEN <<>>
            ELSE IF Head(ls).kind = "frame"
                 THEN <<Head(ls).frame>> \o frames(Tail(ls))
                 ELSE frames(Tail(ls))
    IN frames(lines)

\* The tool-call deltas a frame carries (those of its first choice).
DeltasOf(frame) ==
    IF frame.choices # <<>> /\ IsSome(frame.choices[1].delta.tool_calls)
    THEN frame.choices[1].delta.tool_calls[1] ELSE <<>>

\* The text a frame carries (that of its first choice), "" when none.
TextOf(frame) ==
    IF frame.choices # <<>> /\ IsSome(frame.choices[1].delta.content)
    THEN frame.choices[1].delta.content[1] ELSE ""

\* The argument fragments the frames carry for index idx, concatenated in
\* arrival order.
RECURSIVE FragmentsIn(_, _)
FragmentsIn(deltas, idx) ==
    IF deltas = <<>> THEN ""
    ELSE (IF Head(deltas).index = idx /\ IsSome(Head(deltas).function)
             /\ IsSome(Head(deltas).function[1].arguments)
          THEN Head(deltas).function[1].arguments[1] ELSE "")
         \o FragmentsIn(Tail(deltas), idx)

RECURSIVE FragmentsAt(_, _)
FragmentsAt(frames, idx) ==
    IF frames = <<>> THEN ""
    ELSE FragmentsIn(DeltasOf(Head(frames)), idx) \o FragmentsAt(Tail(frames), idx)

\* The tool-call deltas of all frames, and the ids they carry for index idx.
AllDeltas(frames) ==
    UNION {{DeltasOf(frames[i])[j] : j \in DOMAIN DeltasOf(frames[i])} :
              i \in DOMAIN frames}

IdsAt(frames, idx) ==
    {d.id[1] : d \in {e \in AllDeltas(frames) : e.index = idx /\ IsSome(e.id)}}

StreamIndices == {0, 1}

\* C7: for every index, once frames have carried argument fragments for it,
\* the accumulated entry of that index holds the concatenation of all those
\* fragments in arrival order, and its id is the one id the frames carried.
\* (Under SpecStreamToolCalls every frame carries tool-call fragments and
\* none carries non-empty text, so the accumulator is never cleared.)
\* Violated: a frame whose delta has content "" next to its tool_calls takes
\* the `if let Some(text_delta)` branch, and its fragments are never merged.
C7_Aggregation ==
    \A idx \in StreamIndices :
        LET expected == FragmentsAt(FramesSeen, idx)
        IN expected # "" =>
              /\ idx \in DOMAIN tool_call_aggregator
              /\ IsSome(tool_call_aggregator[idx].function)
              /\ tool_call_aggregator[idx].function[1].arguments = Some(expected)
              /\ \A id \in IdsAt(FramesSeen, idx) :
                    tool_call_aggregator[idx].id = Some(id)

\* The text deltas of the chunks yielded so far, concatenated.
RECURSIVE EmittedText(_)
EmittedText(items) ==
    IF items = <<>> THEN ""
    ELSE (IF Head(items).ok /\ Head(items).chunk.delta.kind = "Text"
          THEN Head(items).chunk.delta.text ELSE "")
         \o EmittedText(Tail(items))

RECURSIVE FramesText(_)
FramesText(frames) ==
    IF frames = <<>> THEN "" ELSE TextOf(Head(frames)) \o FramesText(Tail(frames))

\* A frame with observable content: non-empty text or at least one tool-call
\* delta.
HasContent(frame) == TextOf(frame) # "" \/ DeltasOf(frame) # <<>>

\* A yielded chunk with content: non-empty text or a tool-call delta.
IsContentChunk(item) ==
    item.ok /\ (item.chunk.delta.kind = "ToolCallDelta" \/ item.chunk.delta.text # "")

\* C8: the chunks with content that the stream has yielded are as many as the
\* frames with content that were delivered, and the emitted text deltas
\* concatenate to the frames' text, whatever the grouping of frames into
\* reads.
\* Violated: result_chunk is one slot per read, so of several frames with
\* content in one read only the last one's chunk is yielded.
C8_EveryFrameOneChunk ==
    /\ Cardinality({i \in DOMAIN emitted : IsContentChunk(emitted[i])}) =
           Cardinality({i \in DOMAIN FramesSeen : HasContent(FramesSeen[i])})
    /\ EmittedText(emitted) = FramesText(FramesSeen)

(***************************************************************************)
(* Claims about OpenAI completion, checked under SpecOpenAICompletion.     *)
(***************************************************************************)
\* The call reached the first choice: right provider, success status, at
\* least one choice in the body.
OaAnswered ==
    /\ oaCall.provider = "OpenAI"
    /\ oaResult.result # "none"
    /\ is_success(oaCall.http.status)
    /\ oaCall.http.body.choices # <<>>

\* calls are the backend's tool calls, one for one and in order, each of
\* type "function" with the backend's id, name and arguments string.
SameCalls(calls, backend) ==
    /\ Len(calls) = Len(backend)
    /\ \A i \in DOMAIN backend :
          /\ calls[i].tool_type = "function"
          /\ calls[i].id = backend[i].id
          /\ calls[i].function.name = backend[i].function.name
          /\ calls[i].function.arguments = backend[i].function.arguments

\* C9: the kind of an OpenAI completion is decided from the first choice:
\* tool_calls present -> ToolCall with those calls in order, whatever the
\* content; else content present -> Message with that content; else
\* finish_reason "tool_calls" -> ToolCall with no calls; else Message with
\* empty content.
C9_KindTable ==
    OaAnswered =>
        LET first == oaCall.http.body.choices[1]
            content == first.message.content
            tool_calls == first.message.tool_calls
            kind == oaResult.response.kind
        IN /\ oaResult.result = "Ok"
           /\ IF tool_calls # <<>>
              THEN /\ kind.kind = "ToolCall"
                   /\ SameCalls(kind.tool_calls, tool_calls[1])
              ELSE IF content # <<>>
              THEN /\ kind.kind = "Message"
                   /\ kind.content = content[1]
              ELSE IF first.finish_reason = <<"tool_calls">>
              THEN /\ kind.kind = "ToolCall"
                   /\ kind.tool_calls = <<>>
              ELSE /\ kind.kind = "Message"
                   /\ kind.content = ""

\* C9 witness: a first choice with both content and two tool calls was
\* answered with ToolCall carrying the two calls.
C9_Witness ==
    /\ OaAnswered
    /\ oaCall.http.body.choices[1].message.content = <<"hello">>
    /\ oaCall.http.body.choices[1].message.tool_calls = <<(<<Call1, Call2>>)>>
    /\ oaResult.result = "Ok"
    /\ oaResult.response.kind.kind = "ToolCall"
    /\ Len(oaResult.response.kind.tool_calls) = 2
    /\ oaResult.response.kind.tool_calls[2].id = "call_2"

(***************************************************************************)
(* Claims about Ollama completion, checked under SpecOllamaCompletion.     *)
(***************************************************************************)
\* What the claim expects of each message content that is a tool-call
\* payload with arguments objects: the requests, written out.
ExpectedRequests(text) ==
    CASE text = TextExample ->
           <<[id |-> "x", tool_type |-> "function",
              function |-> [name |-> "f", arguments |-> "{\"n\":1}"]]>>
      [] text = TextSpaced ->
           <<[id |-> "y", tool_type |-> "function",
              function |-> [name |-> "g", arguments |-> "{\"n\":1}"]]>>
      [] text = TextTwoCalls ->
           <<[id |-> "a", tool_type |-> "function",
              function |-> [name |-> "add", arguments |-> "{\"a\":5,\"b\":3}"]],
             [id |-> "b", tool_type |-> "function",
              function |-> [name |-> "mul", arguments |-> "{}"]]>>
      [] OTHER -> <<>>

PayloadTexts == {TextExample, TextSpaced, TextTwoCalls, TextNoCalls}

\* A completion with a non-empty tool list got a successful, well-formed
\* response whose message content is a tool-call payload.
OlPayloadInContent ==
    /\ olResult.result # "none"
    /\ olCall.provider \in {"Ollama", "Custom"}
    /\ olCall.request_tools # <<>> /\ olCall.request_tools[1] # <<>>
    /\ is_success(olCall.http.status)
    /\ olCall.http.body.envelope
    /\ olCall.http.body.message # <<>>
    /\ olCall.http.body.message[1].content # <<>>
    /\ olCall.http.body.message[1].content[1] \in PayloadTexts

\* The response has no top-level tool_calls member.
OlNoTopLevelToolCalls ==
    olCall.http.body.tool_calls = <<>> /\ ~olCall.http.body.mistyped

\* The result is ToolCall with the requests the payload in the message
\* content stands for.
OlAnsweredFromContent ==
    /\ olResult.result = "Ok"
    /\ olResult.response.kind.kind = "ToolCall"
    /\ olResult.response.kind.tool_calls =
           ExpectedRequests(olCall.http.body.message[1].content[1])

AnsweredNonSuccess(result, http) ==
    /\ result.result # "none"
    /\ requests = 1
    /\ (http.status < 200 \/ http.status > 299)

\* result is ApiError with the response's status, the envelope's message
\* when the body parsed as the envelope and the raw body otherwise, and it
\* carries no response.
IsApiErrorOf(result, http) ==
    /\ result.result = "ApiError"
    /\ result.status = http.status
    /\ result.message = (IF http.envelope # <<>> THEN http.envelope[1]
                         ELSE http.raw)
    /\ result.response = NoResponse

\* C11: on either adapter, for completion and completion_stream, a
\* non-success HTTP status s makes the call return ApiError{status: s,
\* message} with no response and no stream, so that no chunk is ever
\* produced; message is the error envelope's message when the body parses as
\* the envelope, otherwise the raw body.
C11_NonSuccessIsApiError ==
    /\ AnsweredNonSuccess(oaResult, oaCall.http)
          => IsApiErrorOf(oaResult, oaCall.http)
    /\ AnsweredNonSuccess(olResult, olCall.http)
          => IsApiErrorOf(olResult, olCall.http)
    /\ AnsweredNonSuccess(stResult, stCall.http)
          => /\ IsApiErrorOf(stResult, stCall.http)
             /\ emitted = <<>>

\* C11 witness: completion_stream of the OpenAI adapter was answered 429 with
\* an error envelope and returned ApiError with the envelope's message.
C11_Witness ==
    /\ stCall.adapter = "OpenAI"
    /\ stCall.http.status = 429
    /\ requests = 1
    /\ stResult.result = "ApiError"
    /\ stResult.status = 429
    /\ stResult.message = "Rate limit reached"
    /\ emitted = <<>>

\* The call returned the Unsupported error, sent no HTTP request and
\* returned no stream.
RejectedUnsupported ==
    /\ stResult.result = "Unsupported"
    /\ requests = 0
    /\ emitted = <<>>

\* C12 as stated: completion_stream returns Unsupported whenever the request
\* carries tools (a tool list with at least one tool), sending no HTTP
\* request and returning no stream, and a request without tools is never
\* rejected as Unsupported. Violated by a request whose tool list is
\* present and empty.
C12_Original ==
    stResult.result # "none" =>
        IF stCall.request_tools # <<>> /\ stCall.request_tools[1] # <<>>
        THEN RejectedUnsupported
        ELSE stResult.result # "Unsupported"

\* C12 amended: completion_stream returns Unsupported, sending no HTTP
\* request and returning no stream, whenever the request's tools field is
\* present, an empty list included; a request whose tools field is absent is
\* never rejected as Unsupported.
C12_ToolsFieldUnsupported ==
    stResult.result # "none" =>
        IF stCall.request_tools # <<>>
        THEN RejectedUnsupported
        ELSE stResult.result # "Unsupported"

\* C12 witness: completion_stream of the Ollama adapter, called with an
\* empty tool list, was rejected as Unsupported.
C12_Witness ==
    /\ stCall.adapter = "Ollama"
    /\ stCall.provider = "Ollama"
    /\ stCall.request_tools = <<(<<>>)>>
    /\ RejectedUnsupported

\* The configured provider does not match the adapter: the OpenAI adapter
\* with a provider other than OpenAI, the Ollama adapter with a provider
\* other than Ollama or Custom.
Mismatched(adapter, provider) ==
    IF adapter = "OpenAI" THEN provider # "OpenAI"
    ELSE provider \notin {"Ollama", "Custom"}

\* C13 as stated: an adapter whose configuration does not match it rejects
\* every request with ConfigError, for completion and completion_stream, and
\* sends no HTTP request. Violated by completion_stream on a request with
\* tools, which is rejected as Unsupported before the provider is checked.
C13_Original ==
    /\ (oaResult.result # "none" /\ Mismatched("OpenAI", oaCall.provider))
          => (oaResult.result = "ConfigError" /\ requests = 0)
    /\ (olResult.result # "none" /\ Mismatched("Ollama", olCall.provider))
          => (olResult.result = "ConfigError" /\ requests = 0)
    /\ (stResult.result # "none" /\ Mismatched(stCall.adapter, stCall.provider))
          => (stResult.result = "ConfigError" /\ requests = 0)

\* C13 amended: an adapter whose configuration does not match it rejects
\* every request without sending an HTTP request: completion with
\* ConfigError, completion_stream with ConfigError when the request's tools
\* field is absent and with Unsupported when it is present.
C13_MismatchRejected ==
    /\ (oaResult.result # "none" /\ Mismatched("OpenAI", oaCall.provider))
          => (oaResult.result = "ConfigError" /\ requests = 0)
    /\ (olResult.result # "none" /\ Mismatched("Ollama", olCall.provider))
          => (olResult.result = "ConfigError" /\ requests = 0)
    /\ (stResult.result # "none" /\ Mismatched(stCall.adapter, stCall.provider))
          => /\ requests = 0
             /\ emitted = <<>>
             /\ stResult.result = (IF stCall.request_tools = <<>>
                                   THEN "ConfigError" ELSE "Unsupported")

\* C13 witness: completion of the OpenAI adapter, configured for Ollama and
\* given a success response, returned ConfigError without sending a request.
C13_Witness ==
    /\ oaCall.provider = "Ollama"
    /\ oaCall.http.status = 200
    /\ oaResult.result = "ConfigError"
    /\ requests = 0

\* C14: a mid-stream parse failure is terminal: once the stream has yielded
\* a parse-error item it yields nothing after it, whatever the backend
\* delivers afterwards.
\* Violated: try_filter_map hands the closure's Err to the caller and keeps
\* the underlying byte stream; the next poll runs the closure on the next
\* read and yields its chunk.
C14_ParseErrorTerminal ==
    \A i \in DOMAIN emitted : ~emitted[i].ok => i = Len(emitted)

(***************************************************************************)
(* More claims about the tool registry, checked under SpecRegistry.        *)
(***************************************************************************)
\* Some descriptor of list l has name n.
ListsName(l, n) == \E i \in DOMAIN l : l[i].name = n

\* What holds of every state for C15: every name that a register call has
\* inserted has an entry, and no execute on such a name returns not-found.
C15_Registered ==
    /\ \A n \in ToolNames : lastRegistered[n].present => tools[n].present
    /\ (lastCall.op = "execute" /\ lastCall.prior.present)
          => ~IsNotFoundError(lastCall.result, lastCall.name)

\* C15 as stated: the set of registered names never shrinks, and once a name
\* has been registered every later get_all includes a descriptor with that
\* name and no execute on it returns not-found. Violated by a get_all on a
\* poisoned lock, which returns the empty list.
C15_Original ==
    /\ C15_Registered
    /\ lastCall.op = "get_all"
          => \A n \in ToolNames :
                lastCall.registered[n] # NoTool
                    => ListsName(lastCall.result.list, n)

\* C15 amended: the set of registered names never shrinks from one state to
\* the next; once a name has been registered, every later get_all that
\* acquires the lock includes a descriptor with that name (on a poisoned
\* lock get_all returns the empty list), and no execute on that name returns
\* not-found.
C15_NoDeregistration ==
    /\ [](/\ C15_Registered
          /\ (lastCall.op = "get_all" /\ lastCall.acquired)
                => \A n \in ToolNames :
                      lastCall.registered[n] # NoTool
                          => ListsName(lastCall.result.list, n))
    /\ [][\A n \in ToolNames : tools[n].present => tools'[n].present]_vars

\* C15 witness: with both names registered, a get_all that acquired the lock
\* listed both.
C15_Witness ==
    /\ lastCall.op = "get_all" /\ lastCall.acquired
    /\ \A n \in ToolNames :
          /\ lastCall.registered[n] # NoTool
          /\ tools[n].present
          /\ ListsName(lastCall.result.list, n)

(***************************************************************************)
(* Claims about token usage, checked under SpecAdapters.                   *)
(***************************************************************************)
\* A usage, when there is one, has total_tokens = prompt_tokens +
\* completion_tokens.
SumsUp(usage) ==
    usage # <<>> =>
        usage[1].total_tokens =
            usage[1].prompt_tokens + usage[1].completion_tokens

\* C16: every TokenUsage an adapter returns, in a completion response or in
\* a stream chunk, has total_tokens = prompt_tokens + completion_tokens, and
\* the Ollama adapter reports a usage only when the backend response has
\* both the prompt count and the completion count.
\* Violated: the OpenAI adapter copies the backend's total_tokens.
C16_UsageTotals ==
    /\ oaResult.result = "Ok" => SumsUp(oaResult.response.usage)
    /\ olResult.result = "Ok" =>
          /\ SumsUp(olResult.response.usage)
          /\ olResult.response.usage # <<>> =>
                /\ olCall.http.body.prompt_eval_count # <<>>
                /\ olCall.http.body.eval_count # <<>>
    /\ \A i \in DOMAIN emitted :
          emitted[i].ok => SumsUp(emitted[i].chunk.usage)

(***************************************************************************)
(* Claims about the merco_tool macro, checked under SpecMacro.             *)
(***************************************************************************)
\* The JSON type the schema should give a parameter of each kind.
JsonTypeOfKind(kind) ==
    CASE kind = "integer" -> "integer"
      [] kind = "floating" -> "number"
      [] kind = "string" -> "string"
      [] kind = "boolean" -> "boolean"
      [] OTHER -> "object"

\* C17: in the Tool built from a function, schema_type is "object", every
\* parameter appears in properties with the JSON type of its kind (integer
\* kinds "integer", floating kinds "number", strings "string", booleans
\* "boolean", anything else "object"), and every parameter name appears in
\* required.
\* Violated: the type is chosen by the spelling of the parameter's type, and
\* a string type spelled std::string::String gets "object".
C17_SchemaInference ==
    macroCall.fn_name # "" =>
        LET schema == macroResult.parameters
        IN /\ schema.schema_type = "object"
           /\ schema.properties # <<>>
           /\ schema.required # <<>>
           /\ \A i \in DOMAIN macroCall.params :
                 LET param == macroCall.params[i]
                 IN /\ param.name \in DOMAIN schema.properties[1]
                    /\ schema.properties[1][param.name].type =
                           JsonTypeOfKind(param.ty.kind)
                    /\ \E j \in DOMAIN schema.required[1] :
                           schema.required[1][j] = param.name

(***************************************************************************)
(* More claims about the OpenAI stream, checked under SpecStreamChunks and *)
(* SpecStreamClear.                                                        *)
(***************************************************************************)
\* The reads that hold a sentinel line.
DoneReads ==
    {r \in DOMAIN history :
        \E k \in DOMAIN history[r] : history[r][k].kind = "done"}

\* C18: the sentinel line data: [DONE] ends the stream, and a frame that
\* arrives after it, in the same read or in a later one, produces no chunk
\* and does not change the accumulator. A read yields at most one item, so
\* the stream has then yielded at most one item per read up to the
\* sentinel's read, none for that read when the sentinel is its first line,
\* and the accumulator is empty when the sentinel was the first line of all.
\* Violated: the sentinel line is skipped like an empty line, and the lines
\* after it are processed.
C18_SentinelEndsStream ==
    DoneReads # {} =>
        LET first == CHOOSE r \in DoneReads : \A q \in DoneReads : r <= q
            leading == history[first][1].kind = "done"
        IN /\ Len(emitted) <= (IF leading THEN first - 1 ELSE first)
           /\ (first = 1 /\ leading) => tool_call_aggregator = <<>>

\* A frame that carries only usage and/or finish_reason: no text, no
\* tool-call delta.
IsMetadataOnly(frame) ==
    /\ TextOf(frame) = ""
    /\ DeltasOf(frame) = <<>>
    /\ \/ frame.usage # <<>>
       \/ (frame.choices # <<>> /\ frame.choices[1].finish_reason # <<>>)

\* The finish_reason a frame carries, absent when it has no choice.
FinishOf(frame) ==
    IF frame.choices # <<>> THEN frame.choices[1].finish_reason ELSE <<>>

\* C19: completion metadata always reaches the caller: for every frame
\* delivered that carries only usage and/or finish_reason, the stream has
\* yielded a chunk with an empty text delta that carries that usage and that
\* finish_reason, whatever the grouping of frames into reads.
\* Violated: when a frame with content is in the same read, the read's one
\* chunk is the content chunk, which carries neither.
C19_MetadataReachesCaller ==
    \A f \in DOMAIN FramesSeen :
        IsMetadataOnly(FramesSeen[f]) =>
            \E i \in DOMAIN emitted :
                /\ emitted[i].ok
                /\ emitted[i].chunk.delta.kind = "Text"
                /\ emitted[i].chunk.delta.text = ""
                /\ emitted[i].chunk.usage = FramesSeen[f].usage
                /\ emitted[i].chunk.finish_reason = FinishOf(FramesSeen[f])

\* The frames delivered after the last frame that carried text.
SinceText ==
    LET texts == {i \in DOMAIN FramesSeen : TextOf(FramesSeen[i]) # ""}
        last == IF texts = {} THEN 0
                ELSE CHOOSE i \in texts : \A j \in texts : j <= i
    IN SubSeq(FramesSeen, last + 1, Len(FramesSeen))

\* C20: a frame that carries text clears the accumulator: the accumulator
\* holds entries only for the indices that frames have carried fragments
\* for since the last text frame, and the arguments and id of each are
\* those of the fragments since then, never continuing what was accumulated
\* before the text frame.
C20_TextClearsAccumulator ==
    \A idx \in StreamIndices :
        LET since == {d \in AllDeltas(SinceText) : d.index = idx}
        IN IF since = {}
           THEN idx \notin DOMAIN tool_call_aggregator
           ELSE /\ idx \in DOMAIN tool_call_aggregator
                /\ tool_call_aggregator[idx].function # <<>>
                /\ tool_call_aggregator[idx].function[1].arguments =
                       <<FragmentsAt(SinceText, idx)>>
                /\ IdsAt(SinceText, idx) = {}
                      => tool_call_aggregator[idx].id = <<>>

\* C20 witness: a first fragment with id call_1, then a text frame, then a
\* second fragment: the entry holds the second fragment alone and no id.
C20_Witness ==
    /\ Len(FramesSeen) = 3
    /\ DeltasOf(FramesSeen[1]) = <<Fragment1>>
    /\ TextOf(FramesSeen[2]) = "Hel"
    /\ DeltasOf(FramesSeen[3]) = <<Fragment2>>
    /\ tool_call_aggregator[0].function[1].arguments = <<"1,\"b\":">>
    /\ tool_call_aggregator[0].id = <<>>


(***************************************************************************)
(* Claims about the tool-call accumulator of the OpenAI stream, checked    *)
(* under SpecStreamOverwrite.                                              *)
(***************************************************************************)
\* The tool-call deltas the closure merges for one read (those of the frames
\* without a content field), in arrival order.
RECURSIVE MergedDeltasOf(_)
MergedDeltasOf(read) ==
    IF read = <<>> THEN <<>>
    ELSE LET line == Head(read)
             ds == IF /\ line.kind = "frame"
                      /\ line.frame.choices # <<>>
                      /\ ~IsSome(Head(line.frame.choices).delta.content)
                      /\ IsSome(Head(line.frame.choices).delta.tool_calls)
                   THEN Head(line.frame.choices).delta.tool_calls[1]
                   ELSE <<>>
         IN ds \o MergedDeltasOf(Tail(read))

\* The value a field holds after the deltas when only a present and
\* non-empty value overwrites it.
RECURSIVE OverwrittenByNonEmpty(_, _)
OverwrittenByNonEmpty(old, values) ==
    IF values = <<>> THEN old
    ELSE OverwrittenByNonEmpty(IF IsSome(Head(values)) /\ Head(values)[1] # ""
                               THEN Head(values) ELSE old, Tail(values))

RECURSIVE IdsFor(_, _)
IdsFor(deltas, i) ==
    IF deltas = <<>> THEN <<>>
    ELSE (IF Head(deltas).index = i THEN <<Head(deltas).id>> ELSE <<>>)
         \o IdsFor(Tail(deltas), i)

RECURSIVE NamesFor(_, _)
NamesFor(deltas, i) ==
    IF deltas = <<>> THEN <<>>
    ELSE (IF Head(deltas).index = i /\ IsSome(Head(deltas).function)
          THEN <<Head(deltas).function[1].name>> ELSE <<>>)
         \o NamesFor(Tail(deltas), i)

EntryName(e) == IF IsSome(e.function) THEN e.function[1].name ELSE None

\* C21: in the accumulated entry for an index, id and function.name are
\* overwritten by a later frame's value only when that value is present
\* and non-empty; a later frame whose id (or name) is absent or empty leaves
\* the accumulated id (or name) as it was.
C21_OverwriteOnlyNonEmpty ==
    [][history' # history =>
         LET deltas == MergedDeltasOf(history'[Len(history')])
         IN \A i \in DOMAIN tool_call_aggregator :
              LET entry == tool_call_aggregator[i]
              IN /\ i \in DOMAIN tool_call_aggregator'
                 /\ (IsSome(entry.id) /\ entry.id[1] # "") =>
                        tool_call_aggregator'[i].id =
                            OverwrittenByNonEmpty(entry.id, IdsFor(deltas, i))
                 /\ (IsSome(EntryName(entry)) /\ EntryName(entry)[1] # "") =>
                        EntryName(tool_call_aggregator'[i]) =
                            OverwrittenByNonEmpty(EntryName(entry),
                                                  NamesFor(deltas, i))]_vars

(***************************************************************************)
(* More claims about Ollama completion, checked under SpecOllamaCompletion.*)
(***************************************************************************)
\* A completion in strict-JSON mode (non-empty tool list) got a successful
\* HTTP response and parsed its body.
OlJsonModeParsed ==
    /\ olResult.result # "none"
    /\ olCall.provider \in {"Ollama", "Custom"}
    /\ olCall.request_tools # <<>> /\ olCall.request_tools[1] # <<>>
    /\ is_success(olCall.http.status)

\* The message contents that are tool-call payloads.
OlContentIsPayload(text) == text \in PayloadTexts \cup {TextStringArguments}

\* C22: strict-JSON parsing follows the precedence, for every response body:
\* (1) a top-level tool_calls field gives ToolCall whatever the message is;
\* (2) otherwise a message gives ToolCall when its content is a tool-call
\* payload and Message with the content verbatim when it is not; (3), (4)
\* ParseError is returned only when there is neither a top-level tool_calls
\* field nor a message to answer from.
C22_ParsePrecedence ==
    OlJsonModeParsed =>
        LET body == olCall.http.body
            kind == olResult.response.kind
        IN /\ IsSome(body.tool_calls) =>
                 olResult.result = "Ok" /\ kind.kind = "ToolCall"
           /\ (/\ ~IsSome(body.tool_calls)
               /\ IsSome(body.message)
               /\ IsSome(body.message[1].content)) =>
                 LET text == body.message[1].content[1]
                 IN /\ olResult.result = "Ok"
                    /\ IF OlContentIsPayload(text)
                       THEN kind.kind = "ToolCall"
                       ELSE kind.kind = "Message" /\ kind.content = text
           /\ olResult.result = "ParseError" =>
                 ~IsSome(body.tool_calls) /\ ~IsSome(body.message)


(***************************************************************************)
(* Claims about the requests the adapters send, checked under SpecEncode.  *)
(***************************************************************************)
\* OllamaProvider::completion sent a request.
OllamaSent == encCall.adapter = "Ollama" /\ IsSome(encResult)
\* OpenAIProvider::completion sent a request.
OpenAISent == encCall.adapter = "OpenAI" /\ IsSome(encResult)

\* The request's tool list is present and not empty.
HasNonEmptyToolList == IsSome(encCall.request.tools) /\ encCall.request.tools[1] # <<>>

\* The three lines of the instruction block that name a tool, its
\* description and its schema, written out for the tools of the model.
ExpectedToolEntry(name) ==
    CASE name = "add" ->
           "- Name: add\n  Description: Add a number\n  Parameters Schema: {\n  \"type\": \"object\",\n  \"properties\": {\n    \"a\": {\n      \"type\": \"number\"\n    }\n  },\n  \"required\": [\n    \"a\"\n  ]\n}\n"
      [] name = "now" ->
           "- Name: now\n  Description: Current time\n  Parameters Schema: {\n  \"type\": \"object\",\n  \"properties\": null,\n  \"required\": null\n}\n"
      [] OTHER -> ""

\* The instruction block for a tool list: the preamble, then every tool's
\* entry in the order of the list.
RECURSIVE ExpectedEntries(_)
ExpectedEntries(tool_list) ==
    IF tool_list = <<>> THEN ""
    ELSE ExpectedToolEntry(Head(tool_list).name) \o ExpectedEntries(Tail(tool_list))
ExpectedBlock(tool_list) == ToolPromptPreamble \o ExpectedEntries(tool_list)

\* The positions of the system messages of a history.
SystemPositions(messages) == {i \in DOMAIN messages : messages[i].role = "system"}

\* C23: when the request carries a non-empty tool list, the outgoing request
\* uses format "json" and one system message carries the instruction block
\* naming every tool's name, description and schema: the block is appended
\* after the existing content of the first system message (separated from
\* it by an empty line) if there is one, otherwise a new system message
\* holding it is inserted at the front; every other message keeps its role,
\* its content and its place in the order.
C23_ToolEmulationPrompt ==
    (OllamaSent /\ HasNonEmptyToolList) =>
        LET in == encCall.request.messages
            out == encResult[1].messages
            block == ExpectedBlock(encCall.request.tools[1])
            sys == SystemPositions(in)
        IN /\ encResult[1].format = Some("json")
           /\ IF sys # {}
              THEN LET first == CHOOSE i \in sys : \A k \in sys : i <= k
                       existing == IF IsSome(in[first].content)
                                   THEN in[first].content[1] ELSE ""
                   IN /\ Len(out) = Len(in)
                      /\ out[first].role = "system"
                      /\ out[first].content = Some(existing \o "\n\n" \o block)
                      /\ \A k \in DOMAIN in \ {first} :
                             /\ out[k].role = in[k].role
                             /\ out[k].content = in[k].content
              ELSE /\ Len(out) = Len(in) + 1
                   /\ out[1].role = "system"
                   /\ out[1].content = Some(block)
                   /\ \A k \in DOMAIN in :
                          /\ out[k + 1].role = in[k].role
                          /\ out[k + 1].content = in[k].content

\* C23 witness: two tools and a history whose system message comes second;
\* the request went out with the block appended to that message and the
\* user message before it untouched.
C23_Witness ==
    /\ OllamaSent
    /\ encCall.request.tools = Some(<<ToolAdd, ToolNow>>)
    /\ Len(encCall.request.messages) = 2
    /\ encCall.request.messages[1].role = "user"
    /\ encCall.request.messages[2].content = Some("Be brief.")
    /\ encResult[1].messages[2].content =
           Some("Be brief.\n\n" \o ExpectedBlock(<<ToolAdd, ToolNow>>))
    /\ encResult[1].messages[1].content = Some("What is 2+2?")
    /\ encResult[1].format = Some("json")

\* C25: the OpenAI wire request carries the request's model, messages (in
\* order), temperature and max_tokens unchanged; the tools map one to one and
\* in order to {type: "function", function: {name, description,
\* parameters}}; tool_choice is "auto" exactly when the request's tools field
\* is present (an empty list included) and absent exactly when it is not.
C25_OpenAIRequestEncoding ==
    OpenAISent =>
        LET req == encCall.request
            wire == encResult[1]
        IN /\ wire.model = req.model
           /\ wire.messages = req.messages
           /\ wire.temperature = req.temperature
           /\ wire.max_tokens = req.max_tokens
           /\ IF IsSome(req.tools)
              THEN /\ IsSome(wire.tools)
                   /\ Len(wire.tools[1]) = Len(req.tools[1])
                   /\ \A i \in DOMAIN req.tools[1] :
                          /\ wire.tools[1][i].tool_type = "function"
                          /\ wire.tools[1][i].function.name = req.tools[1][i].name
                          /\ wire.tools[1][i].function.description =
                                 req.tools[1][i].description
                          /\ wire.tools[1][i].function.parameters =
                                 req.tools[1][i].parameters
                   /\ wire.tool_choice = Some("auto")
              ELSE /\ wire.tools = None
                   /\ wire.tool_choice = None

\* C25 witness: a request with two tools, a temperature and no token limit
\* went out with the two function tools in order and tool_choice "auto".
C25_Witness ==
    /\ OpenAISent
    /\ encCall.request.tools = Some(<<ToolAdd, ToolNow>>)
    /\ encCall.request.temperature = Some("0.7")
    /\ encCall.request.max_tokens = None
    /\ Len(encCall.request.messages) = 2
    /\ encResult[1].tools[1][1].function.name = "add"
    /\ encResult[1].tools[1][2].function.name = "now"
    /\ encResult[1].tool_choice = Some("auto")
    /\ encResult[1].temperature = Some("0.7")

\* C30: apart from tool emulation the Ollama request leaves the history
\* intact: every outgoing message has no tool_calls, and every message of
\* the caller keeps its role, its tool_call_id and its position (one later
\* when tool emulation inserted a system message at the front); when the
\* request has no tools or an empty tool list, no content is changed, no
\* message is added and format is absent; temperature and max_tokens go to
\* options.temperature and options.num_predict, and options is absent when
\* both are.
C30_OllamaRequestEncoding ==
    OllamaSent =>
        LET req == encCall.request
            wire == encResult[1]
            in == req.messages
            out == wire.messages
            shift == IF HasNonEmptyToolList /\ SystemPositions(in) = {}
                     THEN 1 ELSE 0
        IN /\ \A k \in DOMAIN out : out[k].tool_calls = None
           /\ Len(out) = Len(in) + shift
           /\ \A k \in DOMAIN in :
                  /\ out[k + shift].role = in[k].role
                  /\ out[k + shift].tool_call_id = in[k].tool_call_id
           /\ ~HasNonEmptyToolList =>
                  /\ Len(out) = Len(in)
                  /\ \A k \in DOMAIN in : out[k].content = in[k].content
                  /\ wire.format = None
           /\ IF IsSome(req.temperature) \/ IsSome(req.max_tokens)
              THEN /\ IsSome(wire.options)
                   /\ wire.options[1].temperature = req.temperature
                   /\ wire.options[1].num_predict = req.max_tokens
              ELSE wire.options = None

\* C30 witness: a history of an assistant message with tool_calls and the
\* tool's result, an empty tool list and a token limit only; the request
\* went out without the tool_calls, with the tool_call_id, without format
\* and with options holding num_predict alone.
C30_Witness ==
    /\ OllamaSent
    /\ encCall.request.tools = Some(<<>>)
    /\ Len(encCall.request.messages) = 2
    /\ IsSome(encCall.request.messages[1].tool_calls)
    /\ encCall.request.messages[2].tool_call_id = Some("call_1")
    /\ encCall.request.temperature = None
    /\ encResult[1].messages[1].tool_calls = None
    /\ encResult[1].messages[2].tool_call_id = Some("call_1")
    /\ encResult[1].format = None
    /\ encResult[1].options = Some([temperature |-> None, num_predict |-> Some(256)])


(***************************************************************************)
(* Claims about the Ollama stream, checked under SpecAdapters.             *)
(***************************************************************************)
\* The chunk the claim expects of one parsed line.
ExpectedOllamaChunk(f) ==
    [delta |-> [kind |-> "Text", text |-> f.content, calls |-> <<>>],
     usage |-> IF IsSome(f.prompt_eval_count) /\ IsSome(f.eval_count)
               THEN Some([prompt_tokens |-> f.prompt_eval_count[1],
                          completion_tokens |-> f.eval_count[1],
                          total_tokens |-> f.prompt_eval_count[1] + f.eval_count[1]])
               ELSE None,
     finish_reason |-> f.done_reason]

\* One chunk for every line that carries text or has done = true, in
\* arrival order.
RECURSIVE ExpectedOllamaItems(_)
ExpectedOllamaItems(lines) ==
    IF lines = <<>> THEN <<>>
    ELSE LET f == Head(lines).frame
         IN (IF Head(lines).kind = "frame" /\ (f.content # "" \/ f.done)
             THEN <<[ok |-> TRUE, chunk |-> ExpectedOllamaChunk(f)]>>
             ELSE <<>>)
            \o ExpectedOllamaItems(Tail(lines))

\* C24: on an Ollama stream every line that carries non-empty text or has
\* done = true produces one chunk (its text, the usage when both counts are
\* known, its finish reason), in arrival order and however the lines are
\* grouped into reads, and a line with empty text and done = false produces
\* none; a line that fails to parse yields a parse error.
C24_OllamaLineChunks ==
    (stCall.adapter = "Ollama" /\ stResult.result = "Stream") =>
        LET lines == Flatten(history)
            malformed == \E i \in DOMAIN lines : lines[i].kind = "malformed"
        IN /\ ~malformed => emitted = ExpectedOllamaItems(lines)
           /\ malformed => \E i \in DOMAIN emitted : ~emitted[i].ok


(***************************************************************************)
(* Claims about the emitted tool-call entries of the OpenAI stream,        *)
(* checked under SpecStreamSnapshots, where every read yields one chunk.   *)
(***************************************************************************)
\* The arguments text of an entry, "" when it has none.
ArgsOf(e) ==
    IF IsSome(e.function) /\ IsSome(e.function[1].arguments)
    THEN e.function[1].arguments[1] ELSE ""

\* The argument fragments the frames of the model carry, and the texts up
\* to n of them make when concatenated.
FragmentTexts ==
    {ArgsOf(Fragment1), ArgsOf(Fragment2), ArgsOf(Fragment3), ArgsOf(OtherCall)}
RECURSIVE Concatenations(_)
Concatenations(n) ==
    IF n = 0 THEN {""}
    ELSE LET shorter == Concatenations(n - 1)
         IN shorter \cup {x \o f : x \in shorter, f \in FragmentTexts}
IsPrefixOf(a, b) == \E x \in Concatenations(MaxFrames) : b = a \o x

\* A read holds a frame with non-empty text: running the closure on it
\* clears the accumulator.
ReadClears(read) ==
    \E i \in DOMAIN read : read[i].kind = "frame" /\ TextOf(read[i].frame) # ""

\* The frames of a read whose tool-call deltas the closure merges, in order.
RECURSIVE MergedFrames(_)
MergedFrames(read) ==
    IF read = <<>> THEN <<>>
    ELSE (IF MergedDeltasOf(<<Head(read)>>) # <<>>
          THEN <<Head(read).frame>> ELSE <<>>) \o MergedFrames(Tail(read))

IsToolCallChunk(item) == item.ok /\ item.chunk.delta.kind = "ToolCallDelta"
IndicesOf(calls) == {calls[k].index : k \in DOMAIN calls}

\* C29: every tool-call entry of an emitted chunk is a snapshot of the
\* accumulated state of its index, not the raw fragment: a chunk lists
\* exactly the indices touched by the frame that produced it (the last
\* tool-call frame of its read), the newest chunk's (last) entry for an
\* index is the accumulated entry of that index, and between two clears of
\* the accumulator the arguments emitted for an index have the arguments
\* emitted for it before as a prefix.
C29_SnapshotPrefix ==
    /\ Len(emitted) = Len(history)
    /\ \A j \in DOMAIN emitted :
         IsToolCallChunk(emitted[j]) =>
           LET calls == emitted[j].chunk.delta.calls
               frames == MergedFrames(history[j])
           IN /\ frames # <<>>
              /\ IndicesOf(calls) = IndicesOf(DeltasOf(frames[Len(frames)]))
              /\ j = Len(emitted) =>
                   \A k \in DOMAIN calls :
                     (\A l \in DOMAIN calls :
                         calls[l].index = calls[k].index => l <= k)
                       => calls[k] = tool_call_aggregator[calls[k].index]
              /\ \A i \in 1..(j - 1) :
                   (/\ IsToolCallChunk(emitted[i])
                    /\ \A r \in (i + 1)..j : ~ReadClears(history[r]))
                     => \A k \in DOMAIN calls :
                          \A p \in DOMAIN emitted[i].chunk.delta.calls :
                            LET prev == emitted[i].chunk.delta.calls[p]
                            IN prev.index = calls[k].index
                                 => IsPrefixOf(ArgsOf(prev), ArgsOf(calls[k]))

\* C29 witness: three tool-call chunks in a row; the last was produced by
\* the frame that carries fragments of both calls and lists both indices,
\* and its entry for index 0 carries the arguments of all three fragments
\* and the id of the first.
C29_Witness ==
    /\ Len(emitted) = 3
    /\ \A j \in 1..3 : IsToolCallChunk(emitted[j])
    /\ \A j \in 1..3 : Len(history[j]) = 1
    /\ DeltasOf(history[1][1].frame) = <<Fragment1>>
    /\ DeltasOf(history[2][1].frame) = <<Fragment2>>
    /\ DeltasOf(history[3][1].frame) = <<OtherCall, Fragment3>>
    /\ IndicesOf(emitted[3].chunk.delta.calls) = {0, 1}
    /\ ArgsOf(emitted[3].chunk.delta.calls[2])
           = ArgsOf(Fragment1) \o ArgsOf(Fragment2) \o ArgsOf(Fragment3)
    /\ emitted[3].chunk.delta.calls[2].id = Some("call_1")


(***************************************************************************)
(* Claims about concurrent streams, checked under SpecTwoStreams.          *)
(***************************************************************************)
\* An OpenAI stream run on its own over the given reads, from the given
\* accumulator: the accumulator and the items it has yielded at the end.
RECURSIVE AloneOpenAI(_, _, _)
AloneOpenAI(agg, items, reads) ==
    IF reads = <<>> THEN [agg |-> agg, items |-> items]
    ELSE LET st == ProcessLines(ClosureStart(agg), Head(reads))
         IN AloneOpenAI(st.agg, items \o ClosureItems(st), Tail(reads))

\* An Ollama stream run on its own over the given reads: the items yielded.
RECURSIVE AloneOllama(_, _)
AloneOllama(items, reads) ==
    IF reads = <<>> THEN items
    ELSE AloneOllama(
             items \o OllamaClosureItems(
                          OllamaProcessLines(OllamaClosureStart, Head(reads))),
             Tail(reads))

\* The lines of its current read that the closure of stream s is done with.
LinesDone(s) == SubSeq(streams[s].read, 1, streams[s].next - 1)

\* C26: the tool-call accumulator is private to one stream: with two streams
\* open at once, on the same or on different adapters, and their closures
\* interleaved line by line, each stream's accumulator and emitted chunks
\* are what the stream would have on its own with the reads it was given;
\* nothing the other stream processes appears in them, clears them or
\* changes them.
C26_AccumulatorPrivate ==
    \A s \in StreamIds :
        streams[s].open =>
            IF streams[s].adapter = "OpenAI"
            THEN LET alone == AloneOpenAI(EmptyAggregator, <<>>, streams[s].history)
                     now == ProcessLines(ClosureStart(alone.agg), LinesDone(s))
                 IN /\ streams[s].emitted = alone.items
                    /\ aggregators[streams[s].aggregator] = now.agg
                    /\ \A t \in StreamIds \ {s} :
                           streams[t].open =>
                               streams[t].aggregator # streams[s].aggregator
            ELSE /\ streams[s].emitted = AloneOllama(<<>>, streams[s].history)
                 /\ streams[s].aggregator = 0

\* C26 witness: two OpenAI streams were both given the first fragment of a
\* call; the second was then given a text frame. The first still holds its
\* entry and the second holds none; both closures have returned.
C26_Witness ==
    /\ \A s \in StreamIds :
           streams[s].open /\ streams[s].adapter = "OpenAI" /\ ~streams[s].busy
    /\ streams[1].history = <<<<DataLine(Frame(None, Some(<<Fragment1>>), None, None))>>>>
    /\ streams[2].history = <<<<DataLine(Frame(None, Some(<<Fragment1>>), None, None))>>,
                              <<DataLine(Frame(Some("Hel"), None, None, None))>>>>
    /\ 0 \in DOMAIN aggregators[streams[1].aggregator]
    /\ aggregators[streams[2].aggregator] = EmptyAggregator
    /\ Len(streams[1].emitted) = 1 /\ Len(streams[2].emitted) = 2


(***************************************************************************)
(* Claims about executors and the registry lock, checked under             *)
(* SpecReentrant.                                                          *)
(***************************************************************************)
\* Thread t is inside an executor: the closure is running, or is stuck in
\* its own call of a registry function.
InExecutor(t) == pc[t] \in {"running", "blocked"}

\* C27: execute holds the registry lock for the whole executor call: while
\* an executor is running its thread owns the lock and no other thread is
\* past lock() in any registry function; and an executor whose body calls a
\* global registry function never completes normally: no execute of it
\* returns a value.
C27_LockHeldDuringExecutor ==
    /\ \A t \in Threads :
           InExecutor(t) =>
               /\ holder = t
               /\ \A u \in Threads \ {t} : pc[u] \in {"idle", "dead"}
    /\ (/\ lastCall.op = "execute"
        /\ lastCall.invoked # <<>>
        /\ lastCall.invoked[Len(lastCall.invoked)].executor \in NestedExecutorIds)
           => lastCall.result = Panic

\* C27 witness: a thread is stuck inside an executor that calls execute,
\* still owning the lock, and the other thread has not got past lock().
C27_Witness ==
    \E t \in Threads :
        /\ pc[t] = "blocked"
        /\ holder = t
        /\ call[t].invoked[Len(call[t].invoked)].executor = "calls_execute"
        /\ \A u \in Threads \ {t} : pc[u] = "idle"
        /\ ~poisoned


\* What each registry function gives back when lock() fails.
DegradedResult(op) ==
    CASE op = "register" -> Unit
      [] op = "execute" -> LockError
      [] OTHER -> [kind |-> "Tools", val |-> "", list |-> <<>>]

\* C28: poisoning is permanent: from a state where the lock is poisoned,
\* every step leaves it poisoned and leaves the registered tools as they
\* are, no thread gets the guard, and every call that returns is one whose
\* lock() failed: register without effect, get_all and get_by_names with
\* the empty list, execute with the lock error.
C28_PoisonPermanent ==
    [][poisoned =>
          /\ poisoned'
          /\ tools' = tools
          /\ \A t \in Threads : pc'[t] \notin {"locked", "running"}
          /\ lastCall' # lastCall =>
                /\ ~lastCall'.acquired
                /\ lastCall'.invoked = <<>>
                /\ lastCall'.result = DegradedResult(lastCall'.op)]_vars

\* C28 witness: on the poisoned lock a register of a name the registry
\* does not hold has returned, and the registry still does not hold it.
C28_Witness ==
    /\ poisoned
    /\ lastCall.op = "register" /\ ~lastCall.acquired
    /\ ~tools[lastCall.name].present
    /\ \E n \in ToolNames : tools[n].present

=============================================================================
